---- MODULE Spec2Model ----
(***************************************************************************)
(* Model of the agentic tool-calling loop of services/llmService.ts        *)
(* (sendMessage, callLLMProvider, parseGeminiResponse, executeMCPToolCall) *)
(* together with the approval gate of the App component (README.md), the   *)
(* send handler of App (handleSend), the MCP server handlers of App and    *)
(* fetchModels.                                                            *)
(*                                                                         *)
(* JavaScript runs one task at a time, so every action below is the code   *)
(* that runs between two suspension points (await) of sendMessage.         *)
(* Text is modelled as a sequence of string pieces; template literals and  *)
(* string concatenation are \o.                                            *)
(***************************************************************************)
EXTENDS Integers, Sequences, FiniteSets, TLC

----------------------------------------------------------------------------
(* Bounds of the environment *)

\* most tool calls the provider puts in one response
MaxCalls == 2

\* most departures of the environment from the nominal run of an invocation
\* (an extra tool call in a response, an unusual tool call, a denial, a tool
\* failure, the user typing or changing the MCP settings while a send is in
\* flight)
MaxDeviations == 2

----------------------------------------------------------------------------
(* Program constants *)

MAX_TURNS == 5

DENIED == <<"User denied execution of this tool.">>

NOT_FOUND == <<"Error: Tool not found or server disconnected.">>

LIMIT_REACHED == <<"Limite de ejecucion de herramientas alcanzado.">>

ERROR_PREFIX == <<"Error executing tool: ">>

DEFAULT_SYSTEM_PROMPT == <<"Eres Nodemat AI.">>

TOOLS_HINT == <<"Tienes acceso a herramientas locales.">>

\* own properties every plain object literal ({}) inherits from Object.prototype
ObjectPrototypeKeys == {"constructor", "toString"}

----------------------------------------------------------------------------
(* Values *)

NoText == <<>>

NoCalls == <<>>

NoId == -1

Providers ==
    {"groq", "openrouter", "openai", "cerebras", "gemini", "xai", "custom1",
     "custom2"}

CustomProviders == {"custom1", "custom2"}

\* the model ids providerKeyMap falls back to; custom providers have none
DefaultModel(provider) ==
    CASE provider = "groq" -> "llama3-8b-8192"
      [] provider = "openrouter" -> "openai/gpt-3.5-turbo"
      [] provider = "openai" -> "gpt-4o-mini"
      [] provider = "cerebras" -> "llama3.1-8b"
      [] provider = "gemini" -> "gemini-1.5-flash"
      [] provider = "xai" -> "grok-beta"

\* the settings an invocation is started with: the active provider, its key
\* and its model id as stored in the settings
Configurations ==
    { [provider |-> "openai", key |-> "sk-key", model |-> ""],
      [provider |-> "gemini", key |-> "sk-key", model |-> "gemini-1.5-pro"],
      [provider |-> "custom1", key |-> "sk-key", model |-> ""],
      [provider |-> "openai", key |-> "", model |-> "gpt-4o"] }

\* an entry of apiMessages (OpenAI wire format)
ApiMsg(role, content, calls, callId, name) ==
    [role |-> role, content |-> content, tool_calls |-> calls,
     tool_call_id |-> callId, name |-> name]

\* a Message of types.ts
NoDebug == [present |-> FALSE]

Msg(id, role, content, calls, callId, name, debug) ==
    [id |-> id, role |-> role, content |-> content, toolCalls |-> calls,
     tool_call_id |-> callId, name |-> name, rawDebug |-> debug]

\* the MCP servers of settings.mcpServers
McpServers ==
    << [id |-> "s1", url |-> "http://localhost:8000/mcp", authToken |-> "",
        status |-> "connected", errorMessage |-> NoText,
        tools |-> <<"search", "calc">>, enabledTools |-> {"search"}],
       [id |-> "s2", url |-> "http://localhost:9000/mcp", authToken |-> "t",
        status |-> "error", errorMessage |-> <<"Acceso denegado.">>,
        tools |-> <<"ghost">>, enabledTools |-> {"ghost"}] >>

\* what toolMap[fnName] yields for an inherited property: a function object
\* without url or authToken
InheritedValue ==
    [id |-> "Object.prototype", url |-> "undefined", authToken |-> "",
     status |-> "idle", errorMessage |-> NoText, tools |-> <<>>,
     enabledTools |-> {}]

\* histories handed to sendMessage
Histories ==
    { <<>>,
      << Msg(1, "user", <<"hola">>, NoCalls, NoId, "", NoDebug),
         Msg(2, "model", <<"buenas">>, NoCalls, NoId, "", NoDebug) >> }

CurrentMessage == <<"2+2?">>

\* JSON texts and the values they denote
ValidArgs == "{\"q\":\"x\"}"

MalformedArgs == "{\"q\":"

ArgsObject == <<"q", "x">>

InvalidArgsObject == <<"error", "Invalid JSON args">>

\* JSON.parse: the value of a JSON text, or a SyntaxError
JsonParse(str) ==
    IF str = ValidArgs THEN [ok |-> TRUE, value |-> ArgsObject]
    ELSE [ok |-> FALSE, value |-> <<>>]

\* JSON.stringify
JsonStringify(obj) == IF obj = ArgsObject THEN ValidArgs ELSE "null"

\* the tool calls a provider may ask for: name and argument text
PlainCall == [name |-> "search", arguments |-> ValidArgs]

CallInputs ==
    { PlainCall,
      [name |-> "search", arguments |-> MalformedArgs],
      [name |-> "calc", arguments |-> ValidArgs],
      [name |-> "ghost", arguments |-> ValidArgs],
      [name |-> "constructor", arguments |-> ValidArgs] }

CallLists == UNION { [1..n -> CallInputs] : n \in 1..MaxCalls }

RECURSIVE CountOdd(_, _)
CountOdd(calls, i) ==
    IF i > Len(calls) THEN 0
    ELSE (IF calls[i] = PlainCall THEN 0 ELSE 1) + CountOdd(calls, i + 1)

\* departures from the nominal run that a list of tool calls stands for
Cost(calls) == (Len(calls) - 1) + CountOdd(calls, 1)

\* failures of a fetch to the provider, with the message of the Error thrown
ProviderFailures ==
    { <<"Failed to fetch">>, <<"API Error">>, <<"Unexpected token">> }

\* failures of a tools/call exchange, with the message of the Error thrown:
\* network error, non-2xx status, JSON-RPC error
ToolFailures ==
    { <<"Failed to fetch">>, <<"MCP Server Error (500): ", "boom">>,
      <<"rpc failure">> }

ToolResultText == <<"result-text">>

AnswerText == <<"4">>

----------------------------------------------------------------------------
(* State *)

VARIABLES
    activeProvider,         \* settings.activeProvider
    apiKey,                 \* the key of the active provider
    modelSetting,           \* the model id stored for the active provider
    mcpServers,             \* settings.mcpServers
    history,                \* the history argument of sendMessage
    pc,                     \* where sendMessage is suspended
    toolMap,                \* tool name -> server, built on entry
    activeToolsDefs,        \* names of the tool definitions sent to the provider
    apiMessages,            \* the working history
    newMessagesGenerated,   \* the list sendMessage returns
    keepGoing,
    turns,
    requestPayload,         \* payload of the last provider request
    data,                   \* body of the last provider response
    toolCalls,              \* tool calls of the last provider response
    tc,                     \* position of the for loop in toolCalls
    args,                   \* parsed arguments of the current tool call
    result,                 \* the promise sendMessage returned
    now,                    \* Date.now()
    pendingTool,            \* the pendingTool state of App
    providerCalls,          \* requests sent to the provider
    responseLog,            \* how each provider request settled
    approvalLog,           \* invocations of onToolApproval, with their answer
    mcpLog,                 \* tools/call requests sent, with their outcome
    deviations,             \* departures of the environment so far
    input,                  \* App: text of the input box
    isLoading,              \* App: a send is in progress
    isSettingsOpen,         \* App: the settings modal is shown
    sessions,               \* App: the chat sessions
    currentSessionId,       \* App: id of the session shown
    connected,              \* providers whose Connected flag is set
    updatedMessages,        \* handleSend: session messages plus the user message
    sendSessionId,          \* handleSend: currentSessionId of its closure
    inFlight,               \* sendMessage invocations handleSend awaits
    connects,               \* connectMCPServer invocations awaiting connectToMCP
    fetchCall,              \* the fetchModels invocation
    settingsLog,            \* changes of the MCP settings made during a send
    store,                  \* the IndexedDB key-value store
    ops,                    \* storageService calls in progress
    deleteCall,             \* the confirmDeleteChat invocation
    localStorage,           \* window.localStorage, as left by earlier versions
    serviceCall,            \* a migrate, loadAllSessions or clearAll invocation
    connectCall,            \* the connectProvider invocation
    effectDue               \* the active-provider effect is to run

\* the settings and the state of a sendMessage invocation
loop ==
    << activeProvider, apiKey, modelSetting, mcpServers, history, pc, toolMap,
       activeToolsDefs, apiMessages, newMessagesGenerated, keepGoing, turns,
       requestPayload, data, toolCalls, tc, args, result, now, pendingTool,
       providerCalls, responseLog, approvalLog, mcpLog, deviations >>

\* the state of App
app ==
    << input, isLoading, isSettingsOpen, sessions, currentSessionId, connected,
       updatedMessages, sendSessionId, inFlight >>

\* the store, the storageService calls and the handler that deletes a chat
storage == << store, ops, deleteCall, localStorage, serviceCall >>

\* the connectProvider invocation and the effect that follows the settings
connecting == << connectCall, effectDue >>

\* state of App and of fetchModels, which sendMessage does not touch
outside ==
    << input, isLoading, isSettingsOpen, sessions, currentSessionId, connected, updatedMessages,
       sendSessionId, inFlight, connects, fetchCall, settingsLog, storage, connecting >>

vars ==
    << activeProvider, apiKey, modelSetting, mcpServers, history, pc, toolMap,
       activeToolsDefs, apiMessages, newMessagesGenerated, keepGoing, turns,
       requestPayload, data, toolCalls, tc, args, result, now, pendingTool,
       providerCalls, responseLog, approvalLog, mcpLog, deviations, outside >>

\* providerKeyMap[activeProvider].model
ModelOf(provider) ==
    IF modelSetting # "" THEN modelSetting
    ELSE IF provider \in CustomProviders THEN ""
    ELSE DefaultModel(provider)

NoPendingTool == [open |-> FALSE, toolName |-> "", args |-> <<>>]

NoPayload == [messages |-> <<>>, tools |-> <<>>]

NoData == [kind |-> "none"]

Pending == [status |-> "pending", value |-> <<>>, error |-> NoText]

NullBody ==
    [isNull |-> TRUE, hasModels |-> FALSE, models |-> << >>,
     hasData |-> FALSE, data |-> << >>]

NoResponse == [transport |-> FALSE, ok |-> FALSE, json |-> FALSE, body |-> NullBody]

NoRequest == [url |-> NoText, authorization |-> NoText, referer |-> FALSE]

\* body of a tools/list response
McpBody(isNull, hasError, errorMessage, hasTools, tools, isArray, items) ==
    [isNull |-> isNull, hasError |-> hasError, errorMessage |-> errorMessage,
     hasTools |-> hasTools, tools |-> tools, isArray |-> isArray,
     items |-> items]

NoMcpBody == McpBody(TRUE, FALSE, NoText, FALSE, << >>, FALSE, << >>)

McpResponse(transport, ok, status, json, body) ==
    [transport |-> transport, ok |-> ok, status |-> status, json |-> json,
     body |-> body]

NoMcpResponse == McpResponse(FALSE, FALSE, "", FALSE, NoMcpBody)

ServerIds == {"s1", "s2"}

NoConnect == [pc |-> "none", url |-> "", authToken |-> "", response |-> NoMcpResponse]

\* keys of the store, as the pieces of their text
INDEX_KEY == <<"nexus_", "chat_", "index">>

\* `nexus_chat_${id}`
ChatKey(id) == <<"nexus_", "chat_", id>>

\* a key written by something else than this service
ForeignKey == <<"other_", "key">>

\* a key with the prefix of this program that the service does not write
PrefixedKey == <<"nexus_", "other">>

SessionIds == {"1", "2"}

StoreKeys ==
    {INDEX_KEY, ForeignKey, PrefixedKey} \cup { ChatKey(id) : id \in SessionIds }

\* get(key) of a key that is not in the store: undefined
Undefined == [kind |-> "undefined"]

\* the store before this service has written to it
FreshStore ==
    [key \in StoreKeys |->
       IF key = ForeignKey THEN [kind |-> "foreign"] ELSE Undefined]

\* localStorage.getItem of a key that is not there (null); the empty string
\* is as falsy
NoItem == ""

\* a localStorage without a key of this program
NoLocalStorage ==
    [index |-> NoItem, chats |-> [id \in SessionIds |-> NoItem],
     sessions |-> NoItem]

\* no call of migrateFromLocalStorage, loadAllSessions or clearAll so far
NoCall ==
    [name |-> "none", pc |-> "idle", before |-> FreshStore, value |-> Undefined,
     rest |-> << >>, keys |-> {}, migratedCount |-> 0, migrated |-> FALSE,
     returned |-> << >>, previous |-> "none"]

NoConnectCall == [pc |-> "idle", provider |-> ""]

NoDelete == [pc |-> "none", id |-> "", sessions |-> << >>, currentSessionId |-> ""]

NoFetch ==
    [pc |-> "idle", provider |-> "", key |-> "", customUrl |-> NoText,
     request |-> NoRequest, response |-> NoResponse, result |-> Pending]

\* nothing started: no sendMessage, no handleSend, no connectMCPServer, no
\* fetchModels
AtRest ==
    /\ pc = "idle"
    /\ toolMap = << >>
    /\ activeToolsDefs = << >>
    /\ apiMessages = << >>
    /\ newMessagesGenerated = << >>
    /\ keepGoing = TRUE
    /\ turns = 0
    /\ requestPayload = NoPayload
    /\ data = NoData
    /\ toolCalls = NoCalls
    /\ tc = 0
    /\ args = << >>
    /\ result = Pending
    /\ now = 1
    /\ pendingTool = NoPendingTool
    /\ providerCalls = 0
    /\ responseLog = << >>
    /\ approvalLog = << >>
    /\ mcpLog = << >>
    /\ deviations = 0
    /\ isLoading = FALSE
    /\ isSettingsOpen = FALSE
    /\ updatedMessages = << >>
    /\ sendSessionId = ""
    /\ inFlight = 0
    /\ connects = [id \in ServerIds |-> NoConnect]
    /\ fetchCall = NoFetch
    /\ settingsLog = << >>
    /\ ops = << >>
    /\ deleteCall = NoDelete
    /\ serviceCall = NoCall
    /\ connectCall = NoConnectCall
    /\ effectDue = FALSE

Configured(cfg) ==
    /\ activeProvider = cfg.provider
    /\ apiKey = cfg.key
    /\ modelSetting = cfg.model

Init ==
    /\ \E cfg \in Configurations : Configured(cfg)
    /\ mcpServers = McpServers
    /\ history \in Histories
    /\ input = NoText
    /\ sessions = << >>
    /\ currentSessionId = "init"
    /\ connected = {}
    /\ store = FreshStore
    /\ localStorage = NoLocalStorage
    /\ AtRest

----------------------------------------------------------------------------
(* sendMessage: from the entry to the first provider request *)

\* the enabled tools of a server, in the order of server.tools
EnabledTools(server) ==
    SelectSeq(server.tools, LAMBDA t : t \in server.enabledTools)

RECURSIVE ActiveToolsDefs(_, _)
ActiveToolsDefs(servers, i) ==
    IF i > Len(servers) THEN << >>
    ELSE (IF servers[i].status = "connected" THEN EnabledTools(servers[i])
          ELSE << >>) \o ActiveToolsDefs(servers, i + 1)

\* toolMap[t.name] = server: the last connected server enabling a name wins
RECURSIVE BuildToolMap(_, _, _)
BuildToolMap(servers, i, tmap) ==
    IF i > Len(servers) THEN tmap
    ELSE IF servers[i].status # "connected"
         THEN BuildToolMap(servers, i + 1, tmap)
         ELSE LET names == { n \in servers[i].enabledTools :
                               \E k \in 1..Len(servers[i].tools) :
                                   servers[i].tools[k] = n }
                  next == [n \in (DOMAIN tmap) \cup names |->
                             IF n \in names THEN servers[i] ELSE tmap[n]]
              IN  BuildToolMap(servers, i + 1, next)

\* the lookup made in the settings as they are when the tool call arrives
ToolMapGetLive(tmap, fnName) ==
    LET live == BuildToolMap(mcpServers, 1, << >>)
    IN  IF fnName \in DOMAIN live
        THEN [found |-> TRUE, server |-> live[fnName]]
        ELSE [found |-> fnName \in ObjectPrototypeKeys, server |-> InheritedValue]

\* toolMap[fnName] of a plain object: own property, else inherited property,
\* else undefined
ToolMapGet(tmap, fnName) ==
    IF fnName \in DOMAIN tmap THEN [found |-> TRUE, server |-> tmap[fnName]]
    ELSE IF fnName \in ObjectPrototypeKeys
         THEN [found |-> TRUE, server |-> InheritedValue]
         ELSE [found |-> FALSE, server |-> InheritedValue]

SystemInstruction(defs) ==
    IF Len(defs) > 0 THEN DEFAULT_SYSTEM_PROMPT \o TOOLS_HINT
    ELSE DEFAULT_SYSTEM_PROMPT

\* the conversion that copies the system messages of the history as well
RECURSIVE HistoryToApiWithSystem(_, _)
HistoryToApiWithSystem(hist, i) ==
    IF i > Len(hist) THEN << >>
    ELSE << ApiMsg(IF hist[i].role = "model" THEN "assistant" ELSE hist[i].role,
                   hist[i].content, hist[i].toolCalls, hist[i].tool_call_id,
                   hist[i].name) >>
         \o HistoryToApiWithSystem(hist, i + 1)

\* history.forEach: tool, model and user messages are converted, others dropped
RECURSIVE HistoryToApi(_, _)
HistoryToApi(hist, i) ==
    IF i > Len(hist) THEN << >>
    ELSE LET m == hist[i]
             conv ==
               IF m.role = "tool"
               THEN << ApiMsg("tool", m.content, NoCalls, m.tool_call_id, m.name) >>
               ELSE IF m.role = "model"
               THEN << ApiMsg("assistant", m.content, m.toolCalls, NoId, "") >>
               ELSE IF m.role = "user"
               THEN << ApiMsg("user", m.content, NoCalls, NoId, "") >>
               ELSE << >>
         IN  conv \o HistoryToApi(hist, i + 1)

\* the history consumed while it is converted
PrepareHistoryDraining(hist) ==
    [api |-> HistoryToApi(hist, 1), history |-> << >>]

\* history.forEach(m => apiMessages.push({...})): every message is read and
\* its conversion, a new object, pushed; history is the caller's array after
\* the pass
PrepareHistory(hist) == [api |-> HistoryToApi(hist, 1), history |-> hist]

InitialApiMessages(hist, text, defs) ==
    << ApiMsg("system", SystemInstruction(defs), NoCalls, NoId, "") >>
      \o PrepareHistory(hist).api
      \o << ApiMsg("user", text, NoCalls, NoId, "") >>

\* buildGeminiRequest: system messages leave contents, roles are renamed
GeminiContents(api) ==
    LET kept == SelectSeq(api, LAMBDA m : m.role # "system")
    IN  [i \in 1..Len(kept) |->
           [role |-> IF kept[i].role = "assistant" THEN "model" ELSE "user",
            parts |-> << kept[i].content >>]]

GeminiSystemInstruction(api) ==
    LET sys == SelectSeq(api, LAMBDA m : m.role = "system")
    IN  IF Len(sys) > 0 THEN sys[1].content ELSE NoText

\* the request body callLLMProvider sends
BuildRequest(provider, api, defs) ==
    IF provider = "gemini"
    THEN [contents |-> GeminiContents(api),
          systemInstruction |-> GeminiSystemInstruction(api),
          tools |-> defs]
    ELSE [model |-> ModelOf(provider), messages |-> api, tools |-> defs]

\* the loop guard off by one
LoopConditionOffByOne(kg, t) == kg /\ t <= MAX_TURNS

\* while (keepGoing && turns < 5)
LoopCondition(kg, t) == kg /\ t < MAX_TURNS

\* if (turns >= 5)
LimitCheck(t) == t >= MAX_TURNS

LimitMsg(clock) ==
    Msg(clock, "model", LIMIT_REACHED, NoCalls, NoId, "", NoDebug)

\* the head of the while loop, reached with working history api and list msgs:
\* either the next provider request is sent or sendMessage returns
LoopHead(api, kg, msgs, defs) ==
    IF LoopCondition(kg, turns)
    THEN /\ turns' = turns + 1
         /\ requestPayload' = BuildRequest(activeProvider, api, defs)
         /\ providerCalls' = providerCalls + 1
         /\ pc' = "provider"
         /\ newMessagesGenerated' = msgs
         /\ result' = result
    ELSE LET out == IF LimitCheck(turns) THEN Append(msgs, LimitMsg(now'))
                    ELSE msgs
         IN  /\ newMessagesGenerated' = out
             /\ result' = [status |-> "fulfilled", value |-> out, error |-> NoText]
             /\ pc' = "done"
             /\ UNCHANGED << turns, requestPayload, providerCalls >>

\* if (!key)
KeyMissing(key) == key = ""

\* sendMessage(settings, hist, currentMessage, [], onToolApproval) from its
\* entry to its first suspension; history is the array the caller passed
SendMessageFrom(hist, currentMessage) ==
    /\ UNCHANGED << activeProvider, apiKey, modelSetting, mcpServers, data,
                    toolCalls, tc, args, pendingTool, responseLog, approvalLog,
                    mcpLog, deviations >>
    /\ IF KeyMissing(apiKey)
       THEN /\ result' = [status |-> "rejected", value |-> << >>,
                          error |-> <<"La API Key para ", activeProvider,
                                      " no esta configurada.">>]
            /\ pc' = "done"
            /\ history' = hist
            /\ UNCHANGED << toolMap, activeToolsDefs, apiMessages,
                            newMessagesGenerated, keepGoing, turns,
                            requestPayload, providerCalls >>
       ELSE /\ toolMap' = BuildToolMap(mcpServers, 1, << >>)
            /\ activeToolsDefs' = ActiveToolsDefs(mcpServers, 1)
            /\ apiMessages' = InitialApiMessages(hist, currentMessage,
                                                 activeToolsDefs')
            /\ history' = PrepareHistory(hist).history
            /\ keepGoing' = TRUE
            /\ LoopHead(apiMessages', TRUE, << >>, activeToolsDefs')

SendMessage ==
    /\ pc = "idle"
    /\ now' = now
    /\ UNCHANGED outside
    /\ SendMessageFrom(history, CurrentMessage)

----------------------------------------------------------------------------
(* Provider responses *)

\* ids an OpenAI-compatible provider gives the tool calls of its t-th response
ProviderCallId(t, i) == 10 * t + i

ToolCall(id, name, arguments) ==
    [id |-> id, type |-> "function",
     function |-> [name |-> name, arguments |-> arguments]]

\* body of an OpenAI-compatible response: choices[0].message
OpenAIData(text, calls, t) ==
    [choices |->
       << [message |->
             [content |-> text,
              tool_calls |-> [i \in 1..Len(calls) |->
                                ToolCall(ProviderCallId(t, i), calls[i].name,
                                         calls[i].arguments)]]] >>]

\* body of a Gemini response: candidates[0].content.parts, a text part
\* followed by one functionCall part per call
GeminiData(text, calls) ==
    [candidates |->
       << [content |->
             [parts |-> (IF text = NoText THEN << >>
                         ELSE << [text |-> text, isCall |-> FALSE,
                                  functionCall |-> [name |-> "", args |-> << >>]] >>)
                        \o [i \in 1..Len(calls) |->
                              [text |-> NoText, isCall |-> TRUE,
                               functionCall |->
                                 [name |-> calls[i].name,
                                  args |-> JsonParse(calls[i].arguments).value]]]]] >>]

RECURSIVE JoinText(_, _)
JoinText(parts, i) ==
    IF i > Len(parts) THEN NoText
    ELSE parts[i].text \o (IF i < Len(parts) THEN <<"\n">> ELSE NoText)
         \o JoinText(parts, i + 1)

\* parseGeminiResponse: every function call gets the id gemini-${Date.now()};
\* the clock may advance by tick between two evaluations
ParseGeminiResponse(d, clock, tick) ==
    LET parts == d.candidates[1].content.parts
        textParts == SelectSeq(parts, LAMBDA p : p.text # NoText)
        functionCalls == SelectSeq(parts, LAMBDA p : p.isCall)
    IN  [content |-> JoinText(textParts, 1),
         toolCalls |-> [i \in 1..Len(functionCalls) |->
                          ToolCall(clock + tick * (i - 1),
                                   functionCalls[i].functionCall.name,
                                   JsonStringify(functionCalls[i].functionCall.args))]]

ParseOpenAIResponse(d) ==
    [content |-> d.choices[1].message.content,
     toolCalls |-> d.choices[1].message.tool_calls]

ParseResponse(provider, d, clock, tick) ==
    IF provider = "gemini" THEN ParseGeminiResponse(d, clock, tick)
    ELSE ParseOpenAIResponse(d)

ResponseData(provider, text, calls, t) ==
    IF provider = "gemini" THEN GeminiData(text, calls)
    ELSE OpenAIData(text, calls, t)

----------------------------------------------------------------------------
(* The for loop over the tool calls of one response *)

\* the catch block leaving args as the empty object
ParseArgsEmptyOnError(fnArgsStr) ==
    IF JsonParse(fnArgsStr).ok THEN JsonParse(fnArgsStr).value ELSE << >>

\* try { args = JSON.parse(fnArgsStr) } catch { args = { error: ... } }
ParseArgs(fnArgsStr) ==
    LET parsed == JsonParse(fnArgsStr)
    IN  IF parsed.ok THEN parsed.value ELSE InvalidArgsObject

\* the tool message without the id of its call
ToolMsgWithoutId(toolCall, executionResult) ==
    ApiMsg("tool", executionResult, NoCalls, NoId, toolCall.function.name)

ToolMsg(toolCall, executionResult) ==
    ApiMsg("tool", executionResult, NoCalls, toolCall.id, toolCall.function.name)

\* the tool message is built and not pushed
PushToolMsgDropped(api, toolCall, executionResult) == api

\* apiMessages.push(toolMsg)
PushToolMsg(api, toolCall, executionResult) ==
    Append(api, ToolMsg(toolCall, executionResult))

\* the for loop left after its first call
ForLoopBreak(api, calls, i, tmap) ==
    IF i > 1 \/ i > Len(calls) THEN [api |-> api, stop |-> Len(calls) + 1]
    ELSE IF ToolMapGet(tmap, calls[i].function.name).found
         THEN [api |-> api, stop |-> i]
         ELSE [api |-> PushToolMsg(api, calls[i], NOT_FOUND),
               stop |-> Len(calls) + 1]

\* the for loop from position i up to its next suspension: calls whose name
\* toolMap does not resolve are answered at once; the loop stops at the
\* first call that needs approval (stop <= Len(calls)) or past the last call
RECURSIVE ForLoop(_, _, _, _)
ForLoop(api, calls, i, tmap) ==
    IF i > Len(calls) THEN [api |-> api, stop |-> i]
    ELSE IF ToolMapGet(tmap, calls[i].function.name).found
         THEN [api |-> api, stop |-> i]
         ELSE ForLoop(PushToolMsg(api, calls[i], NOT_FOUND), calls, i + 1, tmap)

\* the promise of handleToolApproval whose resolve function is not kept
HandleToolApprovalLost(toolName, a) ==
    [open |-> FALSE, toolName |-> toolName, args |-> a]

\* handleToolApproval: setPendingTool({toolName, args, resolve})
HandleToolApproval(toolName, a) ==
    [open |-> TRUE, toolName |-> toolName, args |-> a]

\* sendMessage runs on from position i of the for loop with working history
\* api; log is the approval log so far
ContinueFrom(api, calls, i, log) ==
    LET r == ForLoop(api, calls, i, toolMap)
    IN  /\ apiMessages' = r.api
        /\ tc' = r.stop
        /\ IF r.stop <= Len(calls)
           THEN LET fnName == calls[r.stop].function.name
                    a == ParseArgs(calls[r.stop].function.arguments)
                IN  /\ args' = a
                    /\ pc' = "approval"
                    /\ pendingTool' = HandleToolApproval(fnName, a)
                    /\ approvalLog' =
                         Append(log,
                                [turn |-> turns, index |-> r.stop,
                                 toolName |-> fnName, args |-> a,
                                 answer |-> "pending"])
                    /\ UNCHANGED << turns, requestPayload, providerCalls,
                                    newMessagesGenerated, result >>
           ELSE /\ args' = << >>
                /\ pendingTool' = NoPendingTool
                /\ approvalLog' = log
                /\ LoopHead(r.api, keepGoing, newMessagesGenerated, activeToolsDefs)

----------------------------------------------------------------------------
(* The provider request settles *)

Settled(turn, how, calls) == [turn |-> turn, how |-> how, calls |-> calls]

\* the failure of the provider request swallowed
ProviderErrorSwallowed(err) ==
    [status |-> "fulfilled", value |-> << >>, error |-> err]

\* callLLMProvider throws and sendMessage does not catch: the promise rejects
ProviderError(err) == [status |-> "rejected", value |-> << >>, error |-> err]

ProviderFails ==
    /\ pc = "provider"
    /\ \E err \in ProviderFailures :
         result' = ProviderError(err)
    /\ pc' = "done"
    /\ now' = now + 1
    /\ responseLog' = Append(responseLog, Settled(turns, "failed", 0))
    /\ UNCHANGED outside
    /\ UNCHANGED << activeProvider, apiKey, modelSetting, mcpServers, history, toolMap,
                    activeToolsDefs, apiMessages, newMessagesGenerated,
                    keepGoing, turns, requestPayload, data, toolCalls, tc, args,
                    pendingTool, providerCalls, approvalLog, mcpLog,
                    deviations >>

RawDebug(provider, payload, d) ==
    [present |-> TRUE, provider |-> provider, model |-> ModelOf(provider),
     requestPayload |-> payload, responsePayload |-> d]

FinalMsg(clock, content, provider, payload, d) ==
    Msg(clock, "model", content, NoCalls, NoId, "", RawDebug(provider, payload, d))

\* the else branch leaving keepGoing as it is
KeepGoingUnchanged(kg) == kg

\* keepGoing = false
KeepGoingAfterAnswer(kg) == FALSE

\* a response without tool calls: the final answer
ProviderAnswers ==
    /\ pc = "provider"
    /\ now' = now + 1
    /\ responseLog' = Append(responseLog, Settled(turns, "ok", 0))
    /\ LET d == ResponseData(activeProvider, AnswerText, NoCalls, turns)
           parsed == ParseResponse(activeProvider, d, now', 0)
       IN  /\ Len(parsed.toolCalls) = 0
           /\ data' = d
           /\ toolCalls' = parsed.toolCalls
           /\ keepGoing' = KeepGoingAfterAnswer(keepGoing)
           /\ LoopHead(apiMessages, keepGoing',
                       Append(newMessagesGenerated,
                              FinalMsg(now', parsed.content, activeProvider,
                                       requestPayload, d)),
                       activeToolsDefs)
    /\ UNCHANGED outside
    /\ UNCHANGED << activeProvider, apiKey, modelSetting, mcpServers, history, toolMap,
                    activeToolsDefs, apiMessages, tc, args, pendingTool,
                    approvalLog, mcpLog, deviations >>

\* a response with tool calls: the assistant message is pushed and the for
\* loop starts
ProviderRequestsTools ==
    /\ pc = "provider"
    /\ \E calls \in CallLists, tick \in {0, 1} :
         /\ deviations + Cost(calls) <= MaxDeviations
         /\ activeProvider = "gemini" =>
              \A i \in 1..Len(calls) : JsonParse(calls[i].arguments).ok
         /\ tick = 1 => (activeProvider = "gemini" /\ Len(calls) > 1)
         /\ deviations' = deviations + Cost(calls)
         /\ now' = now + 1 + tick
         /\ responseLog' = Append(responseLog, Settled(turns, "ok", Len(calls)))
         /\ LET d == ResponseData(activeProvider, NoText, calls, turns)
                parsed == ParseResponse(activeProvider, d, now + 1, tick)
            IN  /\ Len(parsed.toolCalls) > 0
                /\ data' = d
                /\ toolCalls' = parsed.toolCalls
                /\ ContinueFrom(
                     Append(apiMessages,
                            ApiMsg("assistant", parsed.content, parsed.toolCalls,
                                   NoId, "")),
                     parsed.toolCalls, 1, approvalLog)
    /\ UNCHANGED outside
    /\ UNCHANGED << activeProvider, apiKey, modelSetting, mcpServers, history, toolMap,
                    activeToolsDefs, keepGoing, mcpLog >>

----------------------------------------------------------------------------
(* The approval gate *)

\* the answer of the approval gate ignored
ShouldExecuteAlways(isApproved) == TRUE

\* if (isApproved)
ShouldExecute(isApproved) == isApproved

\* executeMCPToolCall up to its fetch: the tools/call request
ToolsCallRequest(server, toolName, a) ==
    [url |-> server.url, method |-> "tools/call", name |-> toolName,
     arguments |-> a]

SetAnswer(log, answer) ==
    [log EXCEPT ![Len(log)] = [@ EXCEPT !.answer = answer]]

SetOutcome(log, outcome) ==
    [log EXCEPT ![Len(log)] = [@ EXCEPT !.outcome = outcome]]

\* confirmTool(allowed) resolves the pending approval; sendMessage goes on
\* to the tools/call request or to the denial message
ConfirmTool ==
    /\ pc = "approval"
    /\ pendingTool.open
    /\ now' = now
    /\ \E allowed \in {"yes", "no"} :
         /\ deviations + (IF allowed = "yes" THEN 0 ELSE 1) <= MaxDeviations
         /\ deviations' = deviations + (IF allowed = "yes" THEN 0 ELSE 1)
         /\ IF ShouldExecute(allowed = "yes")
            THEN /\ mcpLog' =
                      Append(mcpLog,
                             [turn |-> turns, index |-> tc,
                              request |-> ToolsCallRequest(
                                  ToolMapGet(toolMap,
                                             toolCalls[tc].function.name).server,
                                  toolCalls[tc].function.name, args),
                              outcome |-> "pending"])
                 /\ pc' = "tool"
                 /\ pendingTool' = NoPendingTool
                 /\ approvalLog' = SetAnswer(approvalLog, allowed)
                 /\ UNCHANGED << apiMessages, tc, args, turns, requestPayload,
                                 providerCalls, newMessagesGenerated, result >>
            ELSE /\ mcpLog' = mcpLog
                 /\ ContinueFrom(PushToolMsg(apiMessages, toolCalls[tc], DENIED),
                                 toolCalls, tc + 1,
                                 SetAnswer(approvalLog, allowed))
    /\ UNCHANGED outside
    /\ UNCHANGED << activeProvider, apiKey, modelSetting, mcpServers, history, toolMap,
                    activeToolsDefs, keepGoing, data, toolCalls, responseLog >>

----------------------------------------------------------------------------
(* The tools/call request settles *)

\* the failure of a tool execution not caught
ToolErrorRethrown(err) == [thrown |-> TRUE, content |-> ERROR_PREFIX \o err]

\* try { executionResult = await executeMCPToolCall(...) }
\* catch (err) { executionResult = `Error executing tool: ${err.message}` }
ToolErrorResult(err) == [thrown |-> FALSE, content |-> ERROR_PREFIX \o err]

ToolSucceeds ==
    /\ pc = "tool"
    /\ mcpLog' = SetOutcome(mcpLog, "ok")
    /\ now' = now + 1
    /\ ContinueFrom(PushToolMsg(apiMessages, toolCalls[tc], ToolResultText),
                    toolCalls, tc + 1, approvalLog)
    /\ UNCHANGED outside
    /\ UNCHANGED << activeProvider, apiKey, modelSetting, mcpServers, history, toolMap,
                    activeToolsDefs, keepGoing, data, toolCalls, responseLog,
                    deviations >>

ToolFails ==
    /\ pc = "tool"
    /\ deviations < MaxDeviations
    /\ deviations' = deviations + 1
    /\ mcpLog' = SetOutcome(mcpLog, "failed")
    /\ now' = now + 1
    /\ \E err \in ToolFailures :
         LET r == ToolErrorResult(err)
         IN  IF r.thrown
             THEN /\ result' = [status |-> "rejected", value |-> << >>,
                                error |-> err]
                  /\ pc' = "done"
                  /\ UNCHANGED << apiMessages, tc, args, pendingTool,
                                  approvalLog, turns, requestPayload,
                                  providerCalls, newMessagesGenerated >>
             ELSE ContinueFrom(PushToolMsg(apiMessages, toolCalls[tc], r.content),
                               toolCalls, tc + 1, approvalLog)
    /\ UNCHANGED outside
    /\ UNCHANGED << activeProvider, apiKey, modelSetting, mcpServers, history, toolMap,
                    activeToolsDefs, keepGoing, data, toolCalls, responseLog >>

----------------------------------------------------------------------------
(* App: handleSend and the input box *)

\* the settings App sends with: the active provider, its key, its model id
\* and the providers marked connected
AppConfigurations ==
    { [provider |-> "groq", key |-> "gsk-key", model |-> "",
       connected |-> {"groq"}],
      [provider |-> "openai", key |-> "sk-key", model |-> "",
       connected |-> {"openai", "openrouter"}],
      [provider |-> "openai", key |-> "sk-key", model |-> "",
       connected |-> {"openai"}],
      [provider |-> "groq", key |-> "", model |-> "", connected |-> {}],
      [provider |-> "openrouter", key |-> "", model |-> "",
       connected |-> {"openrouter"}] }

\* what the user may type
InputTexts == {NoText, CurrentMessage}

\* a ChatSession: its id and its messages
Session(id, messages) == [id |-> id, messages |-> messages]

AppInit ==
    /\ \E cfg \in AppConfigurations :
         /\ Configured(cfg)
         /\ connected = cfg.connected
    /\ mcpServers = McpServers
    /\ history = << >>
    /\ input = NoText
    /\ \E h \in Histories : sessions = << Session("init", h) >>
    /\ currentSessionId = "init"
    /\ store = FreshStore
    /\ localStorage = NoLocalStorage
    /\ AtRest

\* sessions.find(s => s.id === currentSessionId) || sessions[0]
CurrentSession(ss, id) ==
    LET found == SelectSeq(ss, LAMBDA x : x.id = id)
    IN  IF Len(found) > 0 THEN found[1] ELSE ss[1]

\* the messages given to every session
SetMessagesOfAll(ss, id, messages) ==
    [i \in 1..Len(ss) |-> [ss[i] EXCEPT !.messages = messages]]

\* prev.map(s => s.id === id ? { ...s, messages } : s)
SetMessages(ss, id, messages) ==
    [i \in 1..Len(ss) |->
       IF ss[i].id = id THEN [ss[i] EXCEPT !.messages = messages] ELSE ss[i]]

\* the early return of handleSend without the test of isLoading
ReturnsEarlyWhateverLoading(text, loading) == text = NoText

\* if ((!input.trim() && attachments.length === 0) || isLoading) return;
ReturnsEarly(text, loading) == text = NoText \/ loading

\* const isConnected = settings.activeProvider === 'groq'
\*     ? settings.groqConnected : settings.openRouterConnected;
IsConnected(provider, conn) ==
    IF provider = "groq" THEN "groq" \in conn ELSE "openrouter" \in conn

UserMsg(clock, text) == Msg(clock, "user", text, NoCalls, NoId, "", NoDebug)

\* textarea onChange: setInput(e.target.value)
SetInput ==
    /\ \E text \in InputTexts :
         /\ text # input
         /\ input' = text
    /\ deviations + (IF pc = "idle" THEN 0 ELSE 1) <= MaxDeviations
    /\ deviations' = deviations + (IF pc = "idle" THEN 0 ELSE 1)
    /\ UNCHANGED << activeProvider, apiKey, modelSetting, mcpServers, history,
                    pc, toolMap, activeToolsDefs, apiMessages,
                    newMessagesGenerated, keepGoing, turns, requestPayload,
                    data, toolCalls, tc, args, result, now, pendingTool,
                    providerCalls, responseLog, approvalLog, mcpLog >>
    /\ UNCHANGED << isLoading, isSettingsOpen, sessions, currentSessionId,
                    connected, updatedMessages, sendSessionId, inFlight,
                    connects, fetchCall, settingsLog, storage, connecting >>

\* handleSend up to its await: an early return, the refusal for a provider
\* that is not connected, or the user message is appended to the current
\* session, the loading flag raised and sendMessage called. A behaviour
\* follows one submitted message: handleSend is looked at until that message
\* has settled.
HandleSend ==
    /\ pc = "idle" \/ isLoading
    /\ IF ReturnsEarly(input, isLoading)
       THEN UNCHANGED vars
       ELSE IF ~IsConnected(activeProvider, connected)
       THEN /\ isSettingsOpen' = TRUE
            /\ UNCHANGED << activeProvider, apiKey, modelSetting, mcpServers,
                            history, pc, toolMap, activeToolsDefs, apiMessages,
                            newMessagesGenerated, keepGoing, turns,
                            requestPayload, data, toolCalls, tc, args, result,
                            now, pendingTool, providerCalls, responseLog,
                            approvalLog, mcpLog, deviations >>
            /\ UNCHANGED << input, isLoading, sessions, currentSessionId,
                            connected, updatedMessages, sendSessionId,
                            inFlight, connects, fetchCall, settingsLog, storage, connecting >>
       ELSE LET userMsg == UserMsg(now, input)
                updated ==
                  CurrentSession(sessions, currentSessionId).messages
                    \o << userMsg >>
            IN  /\ sessions' = SetMessages(sessions, currentSessionId, updated)
                /\ input' = NoText
                /\ isLoading' = TRUE
                /\ updatedMessages' = updated
                /\ sendSessionId' = currentSessionId
                /\ inFlight' = inFlight + 1
                /\ now' = now
                /\ UNCHANGED << isSettingsOpen, currentSessionId, connected,
                                connects, fetchCall, settingsLog, storage, connecting >>
                /\ SendMessageFrom(updated, userMsg.content)

ErrorMsg(clock, err) ==
    Msg(clock + 1, "system", <<"Error: ">> \o err \o <<". Verifica tu conexion.">>,
        NoCalls, NoId, "", NoDebug)

\* the catch block adding nothing to the session
HandleSendCatchSilent(messages, clock, err) == messages

\* catch (error): [...updatedMessages, errorMsg]
HandleSendCatch(messages, clock, err) == Append(messages, ErrorMsg(clock, err))

\* handleSend after its await: the new messages, or the error message, are
\* written to the session and the loading flag is lowered (finally)
HandleSendSettled ==
    /\ pc = "done"
    /\ inFlight > 0
    /\ sessions' =
         SetMessages(sessions, sendSessionId,
                     IF result.status = "fulfilled"
                     THEN updatedMessages \o result.value
                     ELSE HandleSendCatch(updatedMessages, now, result.error))
    /\ isLoading' = FALSE
    /\ inFlight' = inFlight - 1
    /\ UNCHANGED << activeProvider, apiKey, modelSetting, mcpServers, history,
                    pc, toolMap, activeToolsDefs, apiMessages,
                    newMessagesGenerated, keepGoing, turns, requestPayload,
                    data, toolCalls, tc, args, result, now, pendingTool,
                    providerCalls, responseLog, approvalLog, mcpLog,
                    deviations >>
    /\ UNCHANGED << input, isSettingsOpen, currentSessionId, connected,
                    updatedMessages, sendSessionId, connects, fetchCall, settingsLog, storage, connecting >>

AppNext ==
    \/ SetInput
    \/ HandleSend
    \/ HandleSendSettled
    \/ ProviderFails
    \/ ProviderAnswers
    \/ ProviderRequestsTools
    \/ ConfirmTool
    \/ ToolSucceeds
    \/ ToolFails

SpecApp == AppInit /\ [][AppNext]_vars

----------------------------------------------------------------------------
(* App: the MCP server handlers, and connectToMCP *)

HasServer(servers, id) == \E i \in 1..Len(servers) : servers[i].id = id

\* settings.mcpServers.find(s => s.id === serverId)
ServerOf(servers, id) == SelectSeq(servers, LAMBDA x : x.id = id)[1]

ToolNames(tools) == { tools[i] : i \in 1..Len(tools) }

\* { ...srv, status: 'loading', errorMessage: '' }
SetLoading(srv) == [srv EXCEPT !.status = "loading", !.errorMessage = NoText]

\* { ...srv, status: 'connected', tools, enabledTools: ... }
SetConnected(srv, tools) ==
    [srv EXCEPT !.status = "connected", !.tools = tools,
                !.enabledTools = IF srv.enabledTools = {} THEN ToolNames(tools)
                                 ELSE srv.enabledTools]

\* { ...srv, status: 'error', errorMessage }
SetError(srv, message) ==
    [srv EXCEPT !.status = "error", !.errorMessage = message]

\* the disconnect that keeps the tools of the server
DisconnectedKeepingTools(srv) == [srv EXCEPT !.status = "idle"]

\* { ...srv, status: 'idle', tools: [], enabledTools: [] }
Disconnected(srv) ==
    [srv EXCEPT !.status = "idle", !.tools = << >>, !.enabledTools = {}]

\* enabledTools with toolName filtered out, or added at the end
Toggled(srv, toolName) ==
    [srv EXCEPT !.enabledTools = IF toolName \in srv.enabledTools
                                 THEN srv.enabledTools \ {toolName}
                                 ELSE srv.enabledTools \cup {toolName}]

\* s.mcpServers.filter(srv => srv.id !== serverId)
Removed(servers, id) == SelectSeq(servers, LAMBDA x : x.id # id)

\* what the POST of tools/list may come to
McpResponses ==
    { McpResponse(FALSE, FALSE, "", FALSE, NoMcpBody) }
    \cup { McpResponse(TRUE, FALSE, status, TRUE, NoMcpBody) :
             status \in {"401", "404", "500", "503"} }
    \cup { McpResponse(TRUE, TRUE, "200", FALSE, NoMcpBody) }
    \cup { McpResponse(TRUE, TRUE, "200", TRUE, body) :
             body \in
               { McpBody(FALSE, TRUE, <<"tool list unavailable">>, FALSE, << >>,
                         FALSE, << >>),
                 McpBody(FALSE, FALSE, NoText, TRUE, <<"search", "calc">>,
                         FALSE, << >>),
                 McpBody(FALSE, FALSE, NoText, TRUE, << >>, FALSE, << >>),
                 McpBody(FALSE, FALSE, NoText, FALSE, << >>, TRUE, <<"search">>),
                 McpBody(FALSE, FALSE, NoText, FALSE, << >>, FALSE, << >>),
                 NoMcpBody } }

Returned(tools) == [ok |-> TRUE, tools |-> tools, error |-> NoText]

Thrown(message) == [ok |-> FALSE, tools |-> << >>, error |-> message]

\* connectToMCP without the test of response.ok
ConnectToMCPAnyStatus(response) ==
    IF ~response.transport THEN Thrown(<<"Failed to fetch">>)
    ELSE IF response.body.hasTools THEN Returned(response.body.tools)
    ELSE Returned(response.body.items)

\* connectToMCP from the settled fetch to its return or throw
ConnectToMCP(response) ==
    IF ~response.transport THEN Thrown(<<"Failed to fetch">>)
    ELSE IF ~response.ok THEN Thrown(<<"Server status ", response.status>>)
    ELSE IF ~response.json
         THEN Thrown(<<"Unexpected token < in ", "JSON", " at position 0">>)
    ELSE IF response.body.isNull
         THEN Thrown(<<"Cannot read properties of null (reading 'error')">>)
    ELSE IF response.body.hasError
         THEN Thrown(<<"MCP Error: ">> \o response.body.errorMessage)
    ELSE IF response.body.hasTools THEN Returned(response.body.tools)
    ELSE IF response.body.isArray THEN Returned(response.body.items)
    ELSE Thrown(<<"Invalid response", " format.">>)

\* msg.includes(part)
Includes(msg, part) == \E i \in 1..Len(msg) : msg[i] = part

\* getFriendlyMCPError
GetFriendlyMCPError(msg) ==
    IF Includes(msg, "Failed to fetch") \/ Includes(msg, "NetworkError")
       \/ Includes(msg, "ECONNREFUSED")
    THEN <<"No pudimos encontrar tu servidor.">>
    ELSE IF Includes(msg, "401") \/ Includes(msg, "403")
    THEN <<"Acceso denegado. Revisa tus credenciales.">>
    ELSE IF Includes(msg, "404") THEN <<"URL incompleta o incorrecta.">>
    ELSE IF Includes(msg, "500")
    THEN <<"El servidor tuvo un problema interno al ejecutar la herramienta.">>
    ELSE IF Includes(msg, "JSON") \/ Includes(msg, "Invalid response")
    THEN <<"El servidor devolvio una respuesta invalida.">>
    ELSE <<"Ocurrio un error inesperado: \"">> \o msg \o <<"\".">>

\* the sendMessage state, the rest of App and fetchModels
besidesMcp ==
    << activeProvider, apiKey, modelSetting, history, pc, toolMap,
       activeToolsDefs, apiMessages, newMessagesGenerated, keepGoing, turns,
       requestPayload, data, toolCalls, tc, args, result, now, pendingTool,
       providerCalls, responseLog, approvalLog, mcpLog, deviations, app,
       fetchCall, settingsLog, storage, connecting >>

\* the Conectar button (shown unless connected, disabled while loading):
\* connectMCPServer up to its await
ConnectMCPServer ==
    /\ \E id \in ServerIds :
         /\ HasServer(mcpServers, id)
         /\ ServerOf(mcpServers, id).status \notin {"connected", "loading"}
         /\ mcpServers' =
              [i \in 1..Len(mcpServers) |->
                 IF mcpServers[i].id = id THEN SetLoading(mcpServers[i])
                 ELSE mcpServers[i]]
         /\ connects' =
              [connects EXCEPT ![id] =
                 [pc |-> "pending", url |-> ServerOf(mcpServers, id).url,
                  authToken |-> ServerOf(mcpServers, id).authToken,
                  response |-> NoMcpResponse]]
    /\ UNCHANGED besidesMcp

\* connectToMCP settles: the try or the catch block of connectMCPServer
ConnectSettles ==
    /\ \E id \in ServerIds, response \in McpResponses :
         /\ connects[id].pc = "pending"
         /\ connects' = [connects EXCEPT ![id].pc = "settled",
                                         ![id].response = response]
         /\ LET r == ConnectToMCP(response)
            IN  mcpServers' =
                  [i \in 1..Len(mcpServers) |->
                     IF mcpServers[i].id # id THEN mcpServers[i]
                     ELSE IF r.ok THEN SetConnected(mcpServers[i], r.tools)
                     ELSE SetError(mcpServers[i], GetFriendlyMCPError(r.error))]
    /\ UNCHANGED besidesMcp

\* the Desconectar button, shown for a connected server
Disconnects(id) ==
    /\ HasServer(mcpServers, id)
    /\ ServerOf(mcpServers, id).status = "connected"
    /\ mcpServers' =
         [i \in 1..Len(mcpServers) |->
            IF mcpServers[i].id = id THEN Disconnected(mcpServers[i])
            ELSE mcpServers[i]]

DisconnectMCPServer ==
    /\ \E id \in ServerIds : Disconnects(id)
    /\ UNCHANGED << besidesMcp, connects >>

\* a click on a tool of the tools selector, shown for a connected server
Toggles(id) ==
    /\ HasServer(mcpServers, id)
    /\ ServerOf(mcpServers, id).status = "connected"
    /\ \E toolName \in ToolNames(ServerOf(mcpServers, id).tools) :
         mcpServers' =
           [i \in 1..Len(mcpServers) |->
              IF mcpServers[i].id = id THEN Toggled(mcpServers[i], toolName)
              ELSE mcpServers[i]]

ToggleMCPTool ==
    /\ \E id \in ServerIds : Toggles(id)
    /\ UNCHANGED << besidesMcp, connects >>

\* the remove button of a server
Removes(id) ==
    /\ HasServer(mcpServers, id)
    /\ mcpServers' = Removed(mcpServers, id)

RemoveMCPServer ==
    /\ \E id \in ServerIds : Removes(id)
    /\ UNCHANGED << besidesMcp, connects >>

\* sendMessage is suspended in one of its awaits
InFlight == pc \in {"provider", "approval", "tool"}

\* all but the server list, the budget of the environment and settingsLog
besidesServers ==
    << activeProvider, apiKey, modelSetting, history, pc, toolMap,
       activeToolsDefs, apiMessages, newMessagesGenerated, keepGoing, turns,
       requestPayload, data, toolCalls, tc, args, result, now, pendingTool,
       providerCalls, responseLog, approvalLog, mcpLog, app, connects,
       fetchCall, storage, connecting >>

\* a change of the MCP settings while a send is in flight is a departure of
\* the environment; settingsLog keeps how many tools/call requests had gone
\* out before it
ChangedInFlight(op, id) ==
    /\ InFlight
    /\ deviations < MaxDeviations
    /\ deviations' = deviations + 1
    /\ settingsLog' =
         Append(settingsLog,
                [op |-> op, serverId |-> id, requests |-> Len(mcpLog)])
    /\ UNCHANGED besidesServers

DisconnectInFlight == \E id \in ServerIds : Disconnects(id) /\ ChangedInFlight("disconnect", id)

ToggleInFlight == \E id \in ServerIds : Toggles(id) /\ ChangedInFlight("toggle", id)

RemoveInFlight == \E id \in ServerIds : Removes(id) /\ ChangedInFlight("remove", id)

InitMcp ==
    /\ activeProvider = "groq"
    /\ apiKey = ""
    /\ modelSetting = "llama3-8b-8192"
    /\ mcpServers = McpServers
    /\ history = << >>
    /\ input = NoText
    /\ sessions = << Session("init", << >>) >>
    /\ currentSessionId = "init"
    /\ connected = {}
    /\ store = FreshStore
    /\ localStorage = NoLocalStorage
    /\ AtRest

NextMcp ==
    \/ ConnectMCPServer
    \/ ConnectSettles
    \/ DisconnectMCPServer
    \/ ToggleMCPTool
    \/ RemoveMCPServer

SpecMcp == InitMcp /\ [][NextMcp]_vars

----------------------------------------------------------------------------
(* storageService: saveSession and deleteSession over the key-value store.
   The requests of idb-keyval take effect in the order in which they are
   issued, so each request is one step, taken where the code issues it. *)

\* session.createdAt, fixed by the id in this model
CreatedAt(id) == IF id = "1" THEN 1 ELSE 2

StoredSession(id, title, messages) ==
    [id |-> id, title |-> title, createdAt |-> CreatedAt(id),
     messages |-> messages]

\* the sessions handed to saveSession: a new chat and the same chat after
\* its first message
SessionInputs ==
    { StoredSession(id, "Nuevo Chat", << >>) : id \in SessionIds }
    \cup { StoredSession(id, "hola", <<"hola">>) : id \in SessionIds }

\* { id: session.id, title: session.title, createdAt: session.createdAt }
MetaOf(session) ==
    [id |-> session.id, title |-> session.title, createdAt |-> session.createdAt]

Body(session) == [kind |-> "session", session |-> session]

Index(entries) == [kind |-> "index", entries |-> entries]

\* await get(INDEX_KEY) || []
IndexOrEmpty(st) ==
    IF st[INDEX_KEY].kind = "index" THEN st[INDEX_KEY].entries ELSE << >>

\* index.findIndex(i => i.id === id), 0 when there is none
FindIndex(index, id) ==
    IF \E k \in 1..Len(index) : index[k].id = id
    THEN CHOOSE k \in 1..Len(index) :
           /\ index[k].id = id
           /\ \A j \in 1..(k - 1) : index[j].id # id
    ELSE 0

\* the entry always added at the front
UpdatedIndexUnshiftOnly(index, session) == << MetaOf(session) >> \o index

\* updateIndex between its get and its set: the entry of the id is replaced,
\* or the new entry is added at the front
UpdatedIndex(index, session) ==
    LET existingIdx == FindIndex(index, session.id)
    IN  IF existingIdx >= 1
        THEN [index EXCEPT ![existingIdx] = MetaOf(session)]
        ELSE << MetaOf(session) >> \o index

\* index.filter(i => i.id !== sessionId)
FilteredIndex(index, sessionId) ==
    SelectSeq(index, LAMBDA i : i.id # sessionId)

RemoveAt(seq, k) == [j \in 1..(Len(seq) - 1) |-> IF j < k THEN seq[j] ELSE seq[j + 1]]

Op(name, at, session, caller) ==
    [name |-> name, pc |-> at, session |-> session, index |-> << >>,
     caller |-> caller]

\* all but the store and the calls of the service
besidesStore ==
    << loop, app, connects, fetchCall, settingsLog, deleteCall, localStorage,
       serviceCall, connecting >>

\* saveSession(session) up to its first await: set(`nexus_chat_${id}`, session)
SaveSessionCalled(session, caller) ==
    /\ store' = [store EXCEPT ![ChatKey(session.id)] = Body(session)]
    /\ ops' = Append(ops, Op("saveSession", "updateIndex", session, caller))

\* deleteSession(sessionId) up to its first await: del(`nexus_chat_${id}`)
DeleteSessionCalled(sessionId, caller) ==
    /\ store' = [store EXCEPT ![ChatKey(sessionId)] = Undefined]
    /\ ops' = Append(ops, Op("deleteSession", "removeFromIndex",
                             StoredSession(sessionId, "", << >>), caller))

\* the caller has no call of saveSession or deleteSession running
ServiceReturned(caller) == \A k \in 1..Len(ops) : ops[k].caller # caller

\* calls made one after another: the next starts when the last has completed
SaveSession ==
    /\ ops = << >>
    /\ serviceCall.pc \in {"idle", "returned"}
    /\ \E session \in SessionInputs : SaveSessionCalled(session, "direct")
    /\ UNCHANGED besidesStore

DeleteSession ==
    /\ ops = << >>
    /\ serviceCall.pc \in {"idle", "returned"}
    /\ \E sessionId \in SessionIds : DeleteSessionCalled(sessionId, "direct")
    /\ UNCHANGED besidesStore

\* updateIndex and removeFromIndex: const index = await get(INDEX_KEY) || []
IndexGet ==
    /\ \E k \in 1..Len(ops) :
         /\ ops[k].pc \in {"updateIndex", "removeFromIndex"}
         /\ ops' = [ops EXCEPT ![k].pc = "got", ![k].index = IndexOrEmpty(store)]
    /\ UNCHANGED << besidesStore, store >>

\* updateIndex after its get: await set(INDEX_KEY, index), and saveSession
\* returns
UpdateIndexSet ==
    /\ \E k \in 1..Len(ops) :
         /\ ops[k].pc = "got"
         /\ ops[k].name = "saveSession"
         /\ store' = [store EXCEPT ![INDEX_KEY] =
                        Index(UpdatedIndex(ops[k].index, ops[k].session))]
         /\ ops' = RemoveAt(ops, k)
    /\ UNCHANGED besidesStore

\* removeFromIndex after its get: await set(INDEX_KEY, newIndex), and
\* deleteSession returns
RemoveFromIndexSet ==
    /\ \E k \in 1..Len(ops) :
         /\ ops[k].pc = "got"
         /\ ops[k].name = "deleteSession"
         /\ store' = [store EXCEPT ![INDEX_KEY] =
                        Index(FilteredIndex(ops[k].index, ops[k].session.id))]
         /\ ops' = RemoveAt(ops, k)
    /\ UNCHANGED besidesStore

InitStore ==
    /\ activeProvider = "groq"
    /\ apiKey = ""
    /\ modelSetting = "llama3-8b-8192"
    /\ mcpServers = << >>
    /\ history = << >>
    /\ input = NoText
    /\ sessions = << >>
    /\ currentSessionId = "init"
    /\ connected = {}
    /\ store = FreshStore
    /\ localStorage = NoLocalStorage
    /\ AtRest

NextStore ==
    \/ SaveSession
    \/ DeleteSession
    \/ IndexGet
    \/ UpdateIndexSet
    \/ RemoveFromIndexSet

SpecStore == InitStore /\ [][NextStore]_vars

----------------------------------------------------------------------------
(* storageService: migrateFromLocalStorage and loadAllSessions, which
   initStorage calls one after the other *)

\* a chat as an earlier version stored it
MigratedSession(id) == StoredSession(id, "hola", <<"hola">>)

\* texts found under nexus_chat_index, nexus_chat_<id> and nexus_sessions;
\* the text stands for the JSON the comment of LsParse gives
IndexTexts == {NoItem, "[]", "[m1]", "[m1,m2]", "null", "[m1"}

ChatTexts(id) == {NoItem, IF id = "1" THEN "{c1}" ELSE "{c2}", "{c"}

SessionsTexts == {NoItem, "[c1,c2]", "{}", "[c1"}

LocalStorages ==
    { [index |-> i, chats |-> c, sessions |-> o] :
        i \in IndexTexts,
        c \in { f \in [SessionIds -> {NoItem, "{c1}", "{c2}", "{c"}] :
                  \A id \in SessionIds : f[id] \in ChatTexts(id) },
        o \in SessionsTexts }

\* JSON.parse: the value of a text, or a SyntaxError. m<id> is the metadata
\* of chat <id>, c<id> the chat itself; "[m1" and "{c" and "[c1" are cut off
LsParse(text) ==
    CASE text = "[]" -> [ok |-> TRUE, value |-> Index(<< >>)]
      [] text = "[m1]" ->
           [ok |-> TRUE, value |-> Index(<< MetaOf(MigratedSession("1")) >>)]
      [] text = "[m1,m2]" ->
           [ok |-> TRUE,
            value |-> Index(<< MetaOf(MigratedSession("1")),
                               MetaOf(MigratedSession("2")) >>)]
      [] text = "null" -> [ok |-> TRUE, value |-> [kind |-> "null"]]
      [] text = "{}" -> [ok |-> TRUE, value |-> [kind |-> "object"]]
      [] text = "{c1}" -> [ok |-> TRUE, value |-> Body(MigratedSession("1"))]
      [] text = "{c2}" -> [ok |-> TRUE, value |-> Body(MigratedSession("2"))]
      [] text = "[c1,c2]" ->
           [ok |-> TRUE,
            value |-> [kind |-> "array",
                       entries |-> << MigratedSession("1"),
                                      MigratedSession("2") >>]]
      [] OTHER -> [ok |-> FALSE, value |-> Undefined]

\* if (value) never taken
TruthyNever(value) == FALSE

\* if (value): undefined and null are falsy, arrays and objects truthy
Truthy(value) == value.kind \notin {"undefined", "null"}

\* for (const x of value) does not throw
Iterable(value) == value.kind \in {"index", "array"}

\* all but the store, the calls of saveSession and the call itself
besidesService ==
    << loop, app, connects, fetchCall, settingsLog, deleteCall, localStorage,
       connecting >>

\* migrateFromLocalStorage: const existingIndexIDB = await get(INDEX_KEY)
MigrateFromLocalStorage ==
    /\ serviceCall.pc \in {"idle", "returned"}
    /\ ops = << >>
    /\ serviceCall' =
         [NoCall EXCEPT
            !.name = "migrateFromLocalStorage", !.pc = "existing",
            !.before = store, !.value = store[INDEX_KEY],
            !.previous =
               IF serviceCall.name # "migrateFromLocalStorage" THEN "none"
               ELSE IF serviceCall.before[INDEX_KEY] # store[INDEX_KEY]
                    THEN "wrote index" ELSE "wrote none"]
    /\ UNCHANGED << besidesService, store, ops >>

\* return migratedCount > 0
MigrateReturns(count) ==
    serviceCall' = [serviceCall EXCEPT !.pc = "returned",
                                       !.migratedCount = count,
                                       !.migrated = count > 0]

\* localStorage.getItem(`nexus_chat_${meta.id}`) is there and parses
Migratable(meta) ==
    /\ localStorage.chats[meta.id] # NoItem
    /\ LsParse(localStorage.chats[meta.id]).ok

\* the loop over the index up to its next await set(`nexus_chat_${id}`, chat),
\* or to the return
MigrateChats(rest, count) ==
    LET ks == { k \in 1..Len(rest) : Migratable(rest[k]) }
    IN  IF ks = {}
        THEN /\ MigrateReturns(count)
             /\ UNCHANGED store
        ELSE LET k == CHOOSE x \in ks : \A y \in ks : x <= y
                 meta == rest[k]
             IN  /\ store' = [store EXCEPT ![ChatKey(meta.id)] =
                                LsParse(localStorage.chats[meta.id]).value]
                 /\ serviceCall' =
                      [serviceCall EXCEPT
                         !.pc = "chat", !.migratedCount = count + 1,
                         !.rest = SubSeq(rest, k + 1, Len(rest))]

\* the loop over the old sessions up to its next await saveSession(session),
\* or to the return
MigrateSessions(rest, count) ==
    IF rest = << >>
    THEN /\ MigrateReturns(count)
         /\ UNCHANGED << store, ops >>
    ELSE /\ SaveSessionCalled(rest[1], "migrateFromLocalStorage")
         /\ serviceCall' = [serviceCall EXCEPT !.pc = "saving",
                                               !.migratedCount = count,
                                               !.rest = Tail(rest)]

\* after the get: the early return, or the Split format up to its
\* await set(INDEX_KEY, index), or the Monolith format up to its first save
MigrateGoesOn ==
    /\ serviceCall.name = "migrateFromLocalStorage"
    /\ serviceCall.pc = "existing"
    /\ IF Truthy(serviceCall.value)
       THEN /\ MigrateReturns(0)
            /\ UNCHANGED << store, ops >>
       ELSE IF localStorage.index # NoItem
       THEN LET index == LsParse(localStorage.index)
            IN  IF index.ok
                THEN /\ store' = [store EXCEPT ![INDEX_KEY] = index.value]
                     /\ serviceCall' = [serviceCall EXCEPT !.pc = "index",
                                                           !.value = index.value]
                     /\ UNCHANGED ops
                ELSE /\ MigrateReturns(0)
                     /\ UNCHANGED << store, ops >>
       ELSE IF localStorage.sessions # NoItem
       THEN LET oldSessions == LsParse(localStorage.sessions)
            IN  IF oldSessions.ok /\ oldSessions.value.kind = "array"
                THEN MigrateSessions(oldSessions.value.entries, 0)
                ELSE /\ MigrateReturns(0)
                     /\ UNCHANGED << store, ops >>
       ELSE /\ MigrateReturns(0)
            /\ UNCHANGED << store, ops >>
    /\ UNCHANGED besidesService

\* after set(INDEX_KEY, index) or set(`nexus_chat_${id}`, chat): the loop
\* over the index goes on; a value that cannot be iterated throws into the
\* outer catch
MigrateChatSet ==
    /\ serviceCall.name = "migrateFromLocalStorage"
    /\ serviceCall.pc \in {"index", "chat"}
    /\ IF serviceCall.pc = "chat"
       THEN MigrateChats(serviceCall.rest, serviceCall.migratedCount)
       ELSE IF Iterable(serviceCall.value)
       THEN MigrateChats(serviceCall.value.entries, 0)
       ELSE /\ MigrateReturns(0)
            /\ UNCHANGED store
    /\ UNCHANGED << besidesService, ops >>

\* after await this.saveSession(session): migratedCount++, next session
MigrateSessionSaved ==
    /\ serviceCall.name = "migrateFromLocalStorage"
    /\ serviceCall.pc = "saving"
    /\ ServiceReturned("migrateFromLocalStorage")
    /\ MigrateSessions(serviceCall.rest, serviceCall.migratedCount + 1)
    /\ UNCHANGED besidesService

\* session || { ...meta, messages: [] }
SessionOrMeta(st, meta) ==
    IF st[ChatKey(meta.id)].kind = "session"
    THEN st[ChatKey(meta.id)].session
    ELSE [id |-> meta.id, title |-> meta.title, createdAt |-> meta.createdAt,
          messages |-> << >>]

\* the sessions returned as they were loaded
Unsorted(loaded) == loaded

\* sessions.sort((a, b) => b.createdAt - a.createdAt); the sort is stable
RECURSIVE SortByCreatedAt(_)
SortByCreatedAt(loaded) ==
    IF loaded = << >> THEN << >>
    ELSE LET front == SortByCreatedAt(SubSeq(loaded, 1, Len(loaded) - 1))
             x == loaded[Len(loaded)]
             k == Cardinality({ j \in 1..Len(front) :
                                  front[j].createdAt >= x.createdAt })
         IN  SubSeq(front, 1, k) \o << x >> \o SubSeq(front, k + 1, Len(front))

\* loadAllSessions: const index = await get(INDEX_KEY)
LoadAllSessions ==
    /\ serviceCall.pc \in {"idle", "returned"}
    /\ ops = << >>
    /\ serviceCall' = [NoCall EXCEPT !.name = "loadAllSessions",
                                     !.pc = "index", !.before = store,
                                     !.value = store[INDEX_KEY]]
    /\ UNCHANGED << besidesService, store, ops >>

\* after the get: the gets of all bodies are issued at once (index.map), or
\* [] is returned
LoadBodies ==
    /\ serviceCall.name = "loadAllSessions"
    /\ serviceCall.pc = "index"
    /\ IF Truthy(serviceCall.value) /\ serviceCall.value.kind = "index"
       THEN serviceCall' =
              [serviceCall EXCEPT
                 !.pc = "bodies",
                 !.rest = [k \in 1..Len(serviceCall.value.entries) |->
                             SessionOrMeta(store, serviceCall.value.entries[k])]]
       ELSE serviceCall' = [serviceCall EXCEPT !.pc = "returned",
                                               !.returned = << >>]
    /\ UNCHANGED << besidesService, store, ops >>

\* after Promise.all: the sessions are sorted and returned
LoadReturns ==
    /\ serviceCall.name = "loadAllSessions"
    /\ serviceCall.pc = "bodies"
    /\ serviceCall' = [serviceCall EXCEPT
                         !.pc = "returned",
                         !.returned = SortByCreatedAt(serviceCall.rest)]
    /\ UNCHANGED << besidesService, store, ops >>

\* a first start after any earlier version: the store is new
InitMigrate ==
    /\ activeProvider = "groq"
    /\ apiKey = ""
    /\ modelSetting = "llama3-8b-8192"
    /\ mcpServers = << >>
    /\ history = << >>
    /\ input = NoText
    /\ sessions = << >>
    /\ currentSessionId = "init"
    /\ connected = {}
    /\ store = FreshStore
    /\ localStorage \in LocalStorages
    /\ AtRest

NextMigrate ==
    \/ MigrateFromLocalStorage
    \/ MigrateGoesOn
    \/ MigrateChatSet
    \/ MigrateSessionSaved
    \/ IndexGet
    \/ UpdateIndexSet
    \/ LoadAllSessions
    \/ LoadBodies
    \/ LoadReturns

SpecMigrate == InitMigrate /\ [][NextMigrate]_vars

----------------------------------------------------------------------------
(* storageService: clearAll *)

\* the store holding the given sessions, the first of the list indexed first
StoreOf(ss) ==
    [key \in StoreKeys |->
       IF key = INDEX_KEY
       THEN Index([k \in 1..Len(ss) |->
                     MetaOf(StoredSession(ss[k].id, "hola", << >>))])
       ELSE IF \E k \in 1..Len(ss) : key = ChatKey(ss[k].id)
       THEN Body(StoredSession(key[3], "hola", <<"hola">>))
       ELSE FreshStore[key]]

\* isChatKey: key.startsWith('nexus_chat_') && key !== INDEX_KEY
IsChatKey(key) == key[1] = "nexus_" /\ key[2] = "chat_" /\ key # INDEX_KEY

\* typeof key === 'string' && key.startsWith('nexus_'); every key of the
\* model is a string
StartsWithPrefix(key) == key[1] = "nexus_"

\* keys(): the keys that hold a value
Keys(st) == { key \in StoreKeys : st[key].kind # "undefined" }

\* clearAll: const allKeys = await keys()
ClearAll ==
    /\ serviceCall.pc \in {"idle", "returned"}
    /\ ops = << >>
    /\ serviceCall' = [NoCall EXCEPT !.name = "clearAll", !.pc = "keys",
                                     !.before = store, !.keys = Keys(store)]
    /\ UNCHANGED << besidesService, store, ops >>

\* the loop over allKeys up to its next await del(key), or to the return;
\* the keys without the prefix are passed over
ClearAllGoesOn ==
    /\ serviceCall.name = "clearAll"
    /\ serviceCall.pc \in {"keys", "del"}
    /\ LET toDelete == { key \in serviceCall.keys : StartsWithPrefix(key) }
       IN  IF toDelete = {}
           THEN /\ serviceCall' = [serviceCall EXCEPT !.pc = "returned",
                                                      !.keys = {}]
                /\ UNCHANGED store
           ELSE \E key \in toDelete :
                  /\ store' = [store EXCEPT ![key] = Undefined]
                  /\ serviceCall' = [serviceCall EXCEPT
                                       !.pc = "del",
                                       !.keys = serviceCall.keys \ {key}]
    /\ UNCHANGED << besidesService, ops >>

\* a store with chats, with or without a key of the prefix written by
\* something else
InitClear ==
    /\ activeProvider = "groq"
    /\ apiKey = ""
    /\ modelSetting = "llama3-8b-8192"
    /\ mcpServers = << >>
    /\ history = << >>
    /\ input = NoText
    /\ sessions = << >>
    /\ currentSessionId = "init"
    /\ connected = {}
    /\ \E ss \in { << >>, << Session("1", << >>) >>,
                   << Session("2", << >>), Session("1", << >>) >> },
          other \in {Undefined, [kind |-> "foreign"]} :
         store = [StoreOf(ss) EXCEPT ![PrefixedKey] = other]
    /\ localStorage = NoLocalStorage
    /\ AtRest

NextClear ==
    \/ SaveSession
    \/ DeleteSession
    \/ IndexGet
    \/ UpdateIndexSet
    \/ RemoveFromIndexSet
    \/ ClearAll
    \/ ClearAllGoesOn

SpecClear == InitClear /\ [][NextClear]_vars

----------------------------------------------------------------------------
(* storageService: calls that overlap. The save effect of App calls
   saveSession without waiting for the call before it, and confirmDeleteChat
   calls deleteSession whatever is being saved. *)

\* no call on this session is running
NotRunning(id) == \A k \in 1..Len(ops) : ops[k].session.id # id

\* the save effect: saveSession(current), next to the calls in progress on
\* other sessions
SaveSessionMeanwhile ==
    /\ \E session \in SessionInputs :
         /\ NotRunning(session.id)
         /\ SaveSessionCalled(session, "save effect")
    /\ UNCHANGED besidesStore

\* confirmDeleteChat: deleteSession(id), next to the calls in progress on
\* other sessions
DeleteSessionMeanwhile ==
    /\ \E sessionId \in SessionIds :
         /\ NotRunning(sessionId)
         /\ DeleteSessionCalled(sessionId, "confirmDeleteChat")
    /\ UNCHANGED besidesStore

NextOverlap ==
    \/ SaveSessionMeanwhile
    \/ DeleteSessionMeanwhile
    \/ IndexGet
    \/ UpdateIndexSet
    \/ RemoveFromIndexSet

SpecOverlap == InitStore /\ [][NextOverlap]_vars

----------------------------------------------------------------------------
(* App: confirmDeleteChat, next to a send *)

\* an id no session of the list has: Date.now().toString()
FreshId(ss) ==
    CHOOSE id \in SessionIds : \A k \in 1..Len(ss) : ss[k].id # id

\* all but the sessions, the session shown, the store and the handler
besidesDelete ==
    << loop, input, isLoading, isSettingsOpen, connected, updatedMessages,
       sendSessionId, inFlight, connects, fetchCall, settingsLog,
       localStorage, serviceCall, connecting >>

\* the confirm button of the delete dialog: confirmDeleteChat up to its
\* first await, with the sessions and the current id of its render
ConfirmDeleteChat ==
    /\ deleteCall.pc = "none"
    /\ \E k \in 1..Len(sessions) :
         /\ deleteCall' = [pc |-> "deleting", id |-> sessions[k].id,
                           sessions |-> sessions,
                           currentSessionId |-> currentSessionId]
         /\ DeleteSessionCalled(sessions[k].id, "confirmDeleteChat")
    /\ UNCHANGED << besidesDelete, sessions, currentSessionId >>

\* confirmDeleteChat after deleteSession has returned
ConfirmDeleteChatGoesOn ==
    /\ deleteCall.pc = "deleting"
    /\ ServiceReturned("confirmDeleteChat")
    /\ LET newSessions ==
             SelectSeq(deleteCall.sessions, LAMBDA x : x.id # deleteCall.id)
       IN  IF Len(newSessions) = 0
           THEN LET newSession == Session(FreshId(deleteCall.sessions), << >>)
                IN  /\ sessions' = << newSession >>
                    /\ currentSessionId' = newSession.id
                    /\ SaveSessionCalled(
                         StoredSession(newSession.id, "Nuevo Chat", << >>),
                         "confirmDeleteChat")
                    /\ deleteCall' = [deleteCall EXCEPT !.pc = "saving"]
           ELSE /\ sessions' = newSessions
                /\ currentSessionId' =
                     IF deleteCall.currentSessionId = deleteCall.id
                     THEN newSessions[1].id ELSE currentSessionId
                /\ deleteCall' = [deleteCall EXCEPT !.pc = "done"]
                /\ UNCHANGED << store, ops >>
    /\ UNCHANGED besidesDelete

\* confirmDeleteChat after saveSession(newSession) has returned
ConfirmDeleteChatSaved ==
    /\ deleteCall.pc = "saving"
    /\ ServiceReturned("confirmDeleteChat")
    /\ deleteCall' = [deleteCall EXCEPT !.pc = "done"]
    /\ UNCHANGED << besidesDelete, sessions, currentSessionId, store, ops >>

\* one or two chats, stored; the first is shown and its provider connected
InitDelete ==
    /\ activeProvider = "groq"
    /\ apiKey = "gsk-key"
    /\ modelSetting = ""
    /\ connected = {"groq"}
    /\ mcpServers = McpServers
    /\ history = << >>
    /\ input = NoText
    /\ sessions \in { << Session("1", << >>) >>,
                      << Session("1", << >>), Session("2", << >>) >> }
    /\ currentSessionId = "1"
    /\ store = StoreOf(sessions)
    /\ localStorage = NoLocalStorage
    /\ AtRest

NextDelete ==
    \/ SetInput
    \/ HandleSend
    \/ HandleSendSettled
    \/ ProviderFails
    \/ ProviderAnswers
    \/ ProviderRequestsTools
    \/ ConfirmTool
    \/ ToolSucceeds
    \/ ToolFails
    \/ ConfirmDeleteChat
    \/ ConfirmDeleteChatGoesOn
    \/ ConfirmDeleteChatSaved
    \/ IndexGet
    \/ UpdateIndexSet
    \/ RemoveFromIndexSet

SpecDelete == InitDelete /\ [][NextDelete]_vars

----------------------------------------------------------------------------
(* fetchModels *)

\* PROVIDER_ENDPOINTS[provider].models
ModelsEndpoint(provider) ==
    CASE provider = "groq" -> <<"https://api.groq.com/openai/v1/models">>
      [] provider = "openrouter" -> <<"https://openrouter.ai/api/v1/models">>
      [] provider = "openai" -> <<"https://api.openai.com/v1/models">>
      [] provider = "cerebras" -> <<"https://api.cerebras.ai/v1/models">>
      [] provider = "gemini" ->
           <<"https://generativelanguage.googleapis.com/v1beta/models">>
      [] provider = "xai" -> <<"https://api.x.ai/v1/models">>
      [] provider \in CustomProviders -> NoText

FALLBACK_MODELS ==
    [openai |-> << <<"gpt-4o">>, <<"gpt-4o-mini">>, <<"gpt-4-turbo">>,
                   <<"gpt-3.5-turbo">>, <<"o1-preview">>, <<"o1-mini">> >>,
     gemini |-> << <<"gemini-2.0-flash-exp">>, <<"gemini-1.5-flash">>,
                   <<"gemini-1.5-pro">>, <<"gemini-1.0-pro">> >>,
     custom1 |-> << >>,
     custom2 |-> << >>]

\* FALLBACK_MODELS[provider] || []
FallbackModels(provider) ==
    IF provider \in DOMAIN FALLBACK_MODELS THEN FALLBACK_MODELS[provider]
    ELSE << >>

\* the arguments fetchModels is called with
FetchKeys == {"", "sk-key"}

CustomUrls(provider) ==
    IF provider \in CustomProviders THEN {NoText, <<"https://api.openai.com/v1">>}
    ELSE {NoText}

\* bodies of a response of a models endpoint
GeminiBody ==
    [isNull |-> FALSE, hasModels |-> TRUE,
     models |-> << [name |-> <<"models/", "gemini-pro">>,
                    supportedGenerationMethods |-> {"generateContent"}],
                   [name |-> <<"models/", "embedding-001">>,
                    supportedGenerationMethods |-> {"embedContent"}],
                   [name |-> <<"tunedModels/", "models/", "mine">>,
                    supportedGenerationMethods |-> {"generateContent"}] >>,
     hasData |-> FALSE, data |-> << >>]

OpenAIBody ==
    [isNull |-> FALSE, hasModels |-> FALSE, models |-> << >>,
     hasData |-> TRUE, data |-> << [id |-> <<"m-1">>], [id |-> <<"m-2">>] >>]

EmptyObject ==
    [isNull |-> FALSE, hasModels |-> FALSE, models |-> << >>,
     hasData |-> FALSE, data |-> << >>]

\* what the fetch of the models endpoint may come to: a transport failure,
\* a non-success status, a body that is no JSON, or a JSON body
FetchResponses ==
    { [transport |-> FALSE, ok |-> FALSE, json |-> FALSE, body |-> NullBody],
      [transport |-> TRUE, ok |-> FALSE, json |-> TRUE, body |-> EmptyObject],
      [transport |-> TRUE, ok |-> TRUE, json |-> FALSE, body |-> NullBody] }
    \cup { [transport |-> TRUE, ok |-> TRUE, json |-> TRUE, body |-> b] :
             b \in {GeminiBody, OpenAIBody, EmptyObject, NullBody} }

\* name.replace('models/', ''): the first occurrence is removed
RECURSIVE ReplaceModelsPrefix(_, _)
ReplaceModelsPrefix(name, i) ==
    IF i > Len(name) THEN name
    ELSE IF name[i] = "models/"
         THEN SubSeq(name, 1, i - 1) \o SubSeq(name, i + 1, Len(name))
         ELSE ReplaceModelsPrefix(name, i + 1)

\* data.models.filter(supports generateContent).map(name without models/)
GeminiModelIds(models) ==
    LET kept == SelectSeq(models, LAMBDA m :
                    "generateContent" \in m.supportedGenerationMethods)
    IN  [i \in 1..Len(kept) |-> ReplaceModelsPrefix(kept[i].name, 1)]

\* data.data.map(m => m.id)
OpenAIModelIds(d) == [i \in 1..Len(d) |-> d[i].id]

Resolved(list) == [status |-> "fulfilled", value |-> list, error |-> NoText]

\* the error of the try block leaving fetchModels
FetchCatchRethrows(provider) ==
    [status |-> "rejected", value |-> << >>, error |-> <<"Failed to fetch">>]

\* catch { return FALLBACK_MODELS[provider] || [] }
FetchCatch(provider) == Resolved(FallbackModels(provider))

\* fetchModels from the settled fetch to its return
FetchModelsResult(provider, response) ==
    IF ~response.transport THEN FetchCatch(provider)
    ELSE IF ~response.ok THEN Resolved(FallbackModels(provider))
    ELSE IF ~response.json \/ response.body.isNull THEN FetchCatch(provider)
    ELSE IF provider = "gemini"
         THEN IF response.body.hasModels
              THEN Resolved(GeminiModelIds(response.body.models))
              ELSE Resolved(FallbackModels(provider))
         ELSE IF response.body.hasData
              THEN Resolved(OpenAIModelIds(response.body.data))
              ELSE Resolved(<< >>)

\* the GET request of fetchModels
ModelsRequest(provider, key, endpoint) ==
    IF provider = "gemini"
    THEN [url |-> endpoint \o <<"?key=", key>>, authorization |-> NoText,
          referer |-> FALSE]
    ELSE [url |-> endpoint, authorization |-> <<"Bearer ", key>>,
          referer |-> provider = "openrouter"]

\* fetchModels(provider, key, customUrl) up to its fetch, or to its return
\* when there is no endpoint
FetchModelsCalled(provider, key, customUrl) ==
    LET endpoint ==
          IF provider \in CustomProviders /\ customUrl # NoText
          THEN customUrl \o <<"/models">>
          ELSE ModelsEndpoint(provider)
        called == [NoFetch EXCEPT !.provider = provider, !.key = key,
                                  !.customUrl = customUrl]
    IN  IF endpoint = NoText
        THEN fetchCall' =
               [called EXCEPT !.pc = "done",
                              !.result = Resolved(FallbackModels(provider))]
        ELSE fetchCall' =
               [called EXCEPT !.pc = "fetch",
                              !.request = ModelsRequest(provider, key, endpoint)]

FetchModels ==
    /\ fetchCall.pc \in {"idle", "done"}
    /\ \E provider \in Providers, key \in FetchKeys :
         \E customUrl \in CustomUrls(provider) :
           FetchModelsCalled(provider, key, customUrl)
    /\ UNCHANGED << loop, app, connects, settingsLog, storage, connecting >>

\* the fetch settles and fetchModels returns
FetchSettles ==
    /\ fetchCall.pc = "fetch"
    /\ \E response \in FetchResponses :
         fetchCall' =
           [fetchCall EXCEPT !.pc = "done", !.response = response,
                             !.result = FetchModelsResult(fetchCall.provider,
                                                          response)]
    /\ UNCHANGED << loop, app, connects, settingsLog, storage, connecting >>

\* the settings a new installation starts with
InitModels ==
    /\ activeProvider = "groq"
    /\ apiKey = ""
    /\ modelSetting = "llama3-8b-8192"
    /\ mcpServers = << >>
    /\ history = << >>
    /\ input = NoText
    /\ sessions = << Session("init", << >>) >>
    /\ currentSessionId = "init"
    /\ connected = {}
    /\ store = FreshStore
    /\ localStorage = NoLocalStorage
    /\ AtRest

NextModels ==
    \/ FetchModels
    \/ FetchSettles

SpecModels == InitModels /\ [][NextModels]_vars

----------------------------------------------------------------------------
(* App: another chat is selected or created while a send is in flight *)

\* all that selecting or creating a chat leaves alone, but the budget of the
\* environment
besidesSessions ==
    << activeProvider, apiKey, modelSetting, mcpServers, history, pc, toolMap,
       activeToolsDefs, apiMessages, newMessagesGenerated, keepGoing, turns,
       requestPayload, data, toolCalls, tc, args, result, now, pendingTool,
       providerCalls, responseLog, approvalLog, mcpLog, input, isLoading,
       isSettingsOpen, connected, updatedMessages, sendSessionId, inFlight,
       connects, fetchCall, settingsLog, storage, connecting >>

\* doing so while a send is in flight is a departure of the environment
DuringSend ==
    /\ deviations + (IF pc = "idle" THEN 0 ELSE 1) <= MaxDeviations
    /\ deviations' = deviations + (IF pc = "idle" THEN 0 ELSE 1)

\* a chat of the sidebar is clicked: setCurrentSessionId(session.id)
SelectSession ==
    /\ \E k \in 1..Len(sessions) :
         /\ sessions[k].id # currentSessionId
         /\ currentSessionId' = sessions[k].id
    /\ DuringSend
    /\ UNCHANGED << besidesSessions, sessions >>

\* handleNewChat: a new empty chat is put first and shown
HandleNewChat ==
    /\ \E id \in SessionIds : \A k \in 1..Len(sessions) : sessions[k].id # id
    /\ LET newSession == Session(FreshId(sessions), << >>)
       IN  /\ sessions' = << newSession >> \o sessions
           /\ currentSessionId' = newSession.id
    /\ DuringSend
    /\ UNCHANGED besidesSessions

\* one chat, shown; its provider is connected
InitSessions ==
    /\ activeProvider = "groq"
    /\ apiKey = "gsk-key"
    /\ modelSetting = ""
    /\ connected = {"groq"}
    /\ mcpServers = McpServers
    /\ history = << >>
    /\ input = NoText
    /\ \E h \in Histories : sessions = << Session("1", h) >>
    /\ currentSessionId = "1"
    /\ store = FreshStore
    /\ localStorage = NoLocalStorage
    /\ AtRest

NextSessions ==
    \/ SetInput
    \/ HandleSend
    \/ HandleSendSettled
    \/ ProviderFails
    \/ ProviderAnswers
    \/ ProviderRequestsTools
    \/ ConfirmTool
    \/ ToolSucceeds
    \/ ToolFails
    \/ SelectSession
    \/ HandleNewChat

SpecSessions == InitSessions /\ [][NextSessions]_vars

----------------------------------------------------------------------------
(* App: connectProvider, disconnectProvider, the provider selector and the
   effect that keeps the active provider connected *)

\* the providers whose Connected flag is a dependency of the effect
EffectProviders ==
    {"groq", "openrouter", "openai", "cerebras", "gemini", "xai"}

\* the effect with the flags of all providers among its dependencies
DependenciesAll(conn, active) == << conn, active >>

\* the dependency array of the effect
Dependencies(conn, active) == << conn \cap EffectProviders, active >>

\* the order in which the effect looks for a connected provider
ProviderOrder ==
    <<"groq", "openrouter", "openai", "cerebras", "gemini", "xai", "custom1",
      "custom2">>

\* providers.find(p => settings[connectedMap[p]]), "" when there is none
FirstConnected(conn) ==
    IF conn = {} THEN ""
    ELSE ProviderOrder[CHOOSE k \in 1..Len(ProviderOrder) :
                         /\ ProviderOrder[k] \in conn
                         /\ \A j \in 1..(k - 1) : ProviderOrder[j] \notin conn]

\* connected whatever came back
ConnectedAlways(models) == TRUE

\* if (models.length > 0)
HasModels(models) == Len(models) > 0

\* all but the settings of the providers, the calls and the effect
besidesProviders ==
    << mcpServers, history, pc, toolMap, activeToolsDefs, apiMessages,
       newMessagesGenerated, keepGoing, turns, requestPayload, data, toolCalls,
       tc, args, result, now, pendingTool, providerCalls, responseLog,
       approvalLog, mcpLog, deviations, input, isLoading, isSettingsOpen,
       sessions, currentSessionId, updatedMessages, sendSessionId, inFlight,
       connects, settingsLog, storage >>

\* a render after which the dependencies differ leaves the effect to run
EffectAfter(conn, active) ==
    effectDue' = (effectDue \/ Dependencies(conn, active)
                                 # Dependencies(connected, activeProvider))

\* the Conectar button of a provider: connectProvider up to its await
ConnectProvider ==
    /\ connectCall.pc = "idle"
    /\ \E provider \in Providers, key \in FetchKeys :
         \E customUrl \in CustomUrls(provider) :
           IF key = ""
           THEN UNCHANGED << fetchCall, connectCall >>
           ELSE /\ FetchModelsCalled(provider, key, customUrl)
                /\ connectCall' = [pc |-> "fetchModels", provider |-> provider]
    /\ UNCHANGED << besidesProviders, activeProvider, apiKey, modelSetting,
                    connected, effectDue >>

\* connectProvider after fetchModels has returned: the flag is set or
\* cleared
ConnectProviderSettles ==
    /\ connectCall.pc = "fetchModels"
    /\ fetchCall.pc = "done"
    /\ LET conn == IF HasModels(fetchCall.result.value)
                   THEN connected \cup {connectCall.provider}
                   ELSE connected \ {connectCall.provider}
       IN  /\ connected' = conn
           /\ EffectAfter(conn, activeProvider)
    /\ connectCall' = NoConnectCall
    /\ fetchCall' = NoFetch
    /\ UNCHANGED << besidesProviders, activeProvider, apiKey, modelSetting >>

\* the Desconectar button of a provider
DisconnectProvider ==
    /\ \E provider \in connected :
         /\ connected' = connected \ {provider}
         /\ EffectAfter(connected \ {provider}, activeProvider)
    /\ UNCHANGED << besidesProviders, activeProvider, apiKey, modelSetting,
                    fetchCall, connectCall >>

\* the selector of the header, which lists the connected providers
SelectProvider ==
    /\ \E provider \in connected \ {activeProvider} :
         /\ activeProvider' = provider
         /\ EffectAfter(connected, provider)
    /\ apiKey' = "sk-key"
    /\ modelSetting' = ""
    /\ UNCHANGED << besidesProviders, connected, fetchCall, connectCall >>

\* the effect: an active provider that is not connected gives way to the
\* first connected one
ActiveProviderEffect ==
    /\ effectDue
    /\ IF activeProvider \notin connected /\ FirstConnected(connected) # ""
       THEN /\ activeProvider' = FirstConnected(connected)
            /\ apiKey' = "sk-key"
            /\ modelSetting' = ""
            /\ effectDue' = TRUE
       ELSE /\ effectDue' = FALSE
            /\ UNCHANGED << activeProvider, apiKey, modelSetting >>
    /\ UNCHANGED << besidesProviders, connected, fetchCall, connectCall >>

\* a new installation: groq is active and nothing is connected
InitProviders ==
    /\ activeProvider = "groq"
    /\ apiKey = ""
    /\ modelSetting = ""
    /\ mcpServers = << >>
    /\ history = << >>
    /\ input = NoText
    /\ sessions = << Session("init", << >>) >>
    /\ currentSessionId = "init"
    /\ connected = {}
    /\ store = FreshStore
    /\ localStorage = NoLocalStorage
    /\ AtRest

NextProviders ==
    \/ ConnectProvider
    \/ FetchSettles
    \/ ConnectProviderSettles
    \/ DisconnectProvider
    \/ SelectProvider
    \/ ActiveProviderEffect

SpecProviders == InitProviders /\ [][NextProviders]_vars

----------------------------------------------------------------------------
(* Specification *)

Next ==
    \/ SendMessage
    \/ ProviderFails
    \/ ProviderAnswers
    \/ ProviderRequestsTools
    \/ ConfirmTool
    \/ ToolSucceeds
    \/ ToolFails

Spec == Init /\ [][Next]_vars

\* every provider request, every approval request and every tools/call
\* request eventually settles
Settling ==
    /\ WF_vars(ProviderFails \/ ProviderAnswers \/ ProviderRequestsTools)
    /\ WF_vars(ConfirmTool)
    /\ WF_vars(ToolSucceeds \/ ToolFails)

\* invocations in both wire formats, with and without key, on a history
\* that holds earlier messages
FairInit ==
    /\ Init
    /\ activeProvider \in {"openai", "gemini"}
    /\ Len(history) > 0

FairSpec == FairInit /\ [][Next]_vars /\ Settling

\* one invocation of sendMessage on an empty history, with the MCP settings
\* changed by the user while it is in flight
LiveInit ==
    /\ Init
    /\ activeProvider = "openai"
    /\ apiKey # ""
    /\ history = << >>

NextLive ==
    \/ SendMessage
    \/ ProviderFails
    \/ ProviderAnswers
    \/ ProviderRequestsTools
    \/ ConfirmTool
    \/ ToolSucceeds
    \/ ToolFails
    \/ DisconnectInFlight
    \/ ToggleInFlight
    \/ RemoveInFlight

SpecLive == LiveInit /\ [][NextLive]_vars

\* a history with every role: a user message, an assistant message with a
\* tool call, its tool message, an error message of the app and an answer
MixedHistory ==
    << Msg(1, "user", <<"hola">>, NoCalls, NoId, "", NoDebug),
       Msg(2, "model", <<"busco">>,
           << [id |-> 7, type |-> "function",
               function |-> [name |-> "search", arguments |-> ValidArgs]] >>,
           NoId, "", NoDebug),
       Msg(3, "tool", <<"earlier-result">>, NoCalls, 7, "search", NoDebug),
       Msg(4, "system", <<"Error: API Error. Verifica tu conexion.">>, NoCalls,
           NoId, "", NoDebug),
       Msg(5, "model", <<"buenas">>, NoCalls, NoId, "", NoDebug) >>

\* one invocation of sendMessage on the mixed history, in both wire formats
HistoryInit ==
    /\ \E cfg \in Configurations : Configured(cfg)
    /\ activeProvider \in {"openai", "gemini"}
    /\ apiKey # ""
    /\ mcpServers = McpServers
    /\ history = MixedHistory
    /\ input = NoText
    /\ sessions = << >>
    /\ currentSessionId = "init"
    /\ connected = {}
    /\ store = FreshStore
    /\ localStorage = NoLocalStorage
    /\ AtRest

SpecHistory == HistoryInit /\ [][Next]_vars

Server(id, status, tools, enabledTools) ==
    [id |-> id,
     url |-> IF id = "s1" THEN "http://localhost:8000/mcp"
             ELSE "http://localhost:9000/mcp",
     authToken |-> "",
     status |-> status, errorMessage |-> NoText, tools |-> tools,
     enabledTools |-> enabledTools]

\* settings.mcpServers with servers in every state: a server that was never
\* connected or was disconnected has no tools, a connecting or failed one
\* keeps the tools of its last connection
ToolSettings ==
    { << Server("s1", "connected", <<"search", "calc", "constructor">>,
                {"search"}),
         Server("s2", "error", <<"ghost">>, {"ghost"}) >>,
      << Server("s1", "loading", <<"search", "calc">>, {"search", "calc"}),
         Server("s2", "connected", <<"ghost", "search">>, {"ghost", "search"}) >>,
      << Server("s1", "idle", << >>, {}),
         Server("s2", "connected", <<"calc">>, {}) >>,
      << Server("s1", "connected", <<"search">>, {"search"}),
         Server("s2", "connected", <<"search", "calc">>, {"search", "calc"}) >> }

\* one invocation of sendMessage under each of these settings
ToolsInit ==
    /\ \E cfg \in Configurations : Configured(cfg)
    /\ activeProvider = "openai"
    /\ apiKey # ""
    /\ mcpServers \in ToolSettings
    /\ history = << >>
    /\ input = NoText
    /\ sessions = << >>
    /\ currentSessionId = "init"
    /\ connected = {}
    /\ store = FreshStore
    /\ localStorage = NoLocalStorage
    /\ AtRest

SpecTools == ToolsInit /\ [][Next]_vars

----------------------------------------------------------------------------
(* Vocabulary of the properties *)

Fulfilled == result.status = "fulfilled"

Rejected == result.status = "rejected"

IsLimitMsg(m) == m.role = "model" /\ m.content = LIMIT_REACHED

LastOf(seq) == seq[Len(seq)]

\* a provider response of this invocation carried no tool call
SawFinalResponse ==
    \E i \in 1..Len(responseLog) :
        responseLog[i].how = "ok" /\ responseLog[i].calls = 0

\* every provider request so far was answered with at least one tool call
OnlyToolCallResponses ==
    \A i \in 1..Len(responseLog) :
        responseLog[i].how = "ok" /\ responseLog[i].calls >= 1

\* names of the tools that a connected server lists and enables
EnabledNames ==
    { n \in {"search", "calc", "ghost", "constructor", "toString"} :
        \E s \in 1..Len(mcpServers) :
            /\ mcpServers[s].status = "connected"
            /\ n \in mcpServers[s].enabledTools
            /\ \E k \in 1..Len(mcpServers[s].tools) : mcpServers[s].tools[k] = n }

\* tool messages at the end of the working history
RECURSIVE TrailingToolMsgs(_, _)
TrailingToolMsgs(api, n) ==
    IF n = 0 \/ api[n].role # "tool" THEN 0
    ELSE 1 + TrailingToolMsgs(api, n - 1)

PendingApprovals ==
    Cardinality({ i \in 1..Len(approvalLog) : approvalLog[i].answer = "pending" })

ToolsInFlight ==
    Cardinality({ j \in 1..Len(mcpLog) : mcpLog[j].outcome = "pending" })

\* the step in which the pending approval is answered no
DenialStep ==
    /\ Len(approvalLog) > 0
    /\ LastOf(approvalLog).answer = "pending"
    /\ Len(approvalLog') >= Len(approvalLog)
    /\ approvalLog'[Len(approvalLog)].answer = "no"

\* the step in which the tools/call request in flight fails
ToolFailStep ==
    /\ Len(mcpLog) > 0
    /\ LastOf(mcpLog).outcome = "pending"
    /\ mcpLog'[Len(mcpLog)].outcome = "failed"

\* the step in which the provider request in flight fails
ProviderFailStep ==
    /\ Len(responseLog') = Len(responseLog) + 1
    /\ LastOf(responseLog').how = "failed"

\* in this step the for loop answers the current call with content c and
\* runs on past it: one message per call it leaves behind, and either the
\* approval of the call it stops at is requested or the turn is over
AnswersAndRunsOn(c) ==
    /\ Len(apiMessages') > Len(apiMessages)
    /\ LET m == apiMessages'[Len(apiMessages) + 1]
       IN  /\ m.role = "tool"
           /\ m.content = c
           /\ m.tool_call_id = toolCalls[tc].id
           /\ m.name = toolCalls[tc].function.name
    /\ tc' > tc
    /\ Len(apiMessages') = Len(apiMessages) + (tc' - tc)
    /\ tc' <= Len(toolCalls) =>
         /\ pc' = "approval"
         /\ pendingTool'.open
         /\ pendingTool'.toolName = toolCalls[tc'].function.name

----------------------------------------------------------------------------
(* Properties of the loop *)

\* C1: an invocation makes at most 5 provider round trips; if the provider
\* answered every request with at least one tool call, the invocation
\* returns after exactly 5 round trips with the limit-reached message last.
C1_TurnCap ==
    /\ providerCalls <= 5
    /\ Len(responseLog) <= 5
    /\ (Fulfilled /\ OnlyToolCallResponses) =>
         /\ providerCalls = 5
         /\ Len(responseLog) = 5
         /\ Len(result.value) > 0
         /\ IsLimitMsg(LastOf(result.value))

C1_Witness ==
    /\ Fulfilled
    /\ OnlyToolCallResponses
    /\ providerCalls = 5
    /\ IsLimitMsg(LastOf(result.value))

\* C2: when a provider response carried no tool call, the returned list
\* holds exactly one assistant message, with the text of that response.
C2_OneAssistantMessage ==
    (Fulfilled /\ SawFinalResponse) =>
        /\ Len(SelectSeq(result.value, LAMBDA m : m.role = "model")) = 1
        /\ \E i \in 1..Len(result.value) :
               result.value[i].role = "model" /\ result.value[i].content = AnswerText

\* C3: when a provider response carried no tool call, the returned list
\* holds no limit-reached message.
C3_NoLimitAfterFinal ==
    (Fulfilled /\ SawFinalResponse) =>
        \A i \in 1..Len(result.value) : ~IsLimitMsg(result.value[i])

\* C4: at every provider request, and at the return, each assistant message
\* with k tool calls in the working history is followed by exactly k tool
\* messages, the i-th with the id and the name of the i-th call; the
\* request of an OpenAI-compatible provider carries that working history.
C4_ToolCallsAnswered ==
    /\ (pc = "provider" \/ Fulfilled) =>
         \A p \in 1..Len(apiMessages) :
             LET m == apiMessages[p]
                 k == Len(m.tool_calls)
             IN  (m.role = "assistant" /\ k > 0) =>
                   /\ p + k <= Len(apiMessages)
                   /\ \A i \in 1..k :
                        /\ apiMessages[p + i].role = "tool"
                        /\ apiMessages[p + i].tool_call_id = m.tool_calls[i].id
                        /\ apiMessages[p + i].name = m.tool_calls[i].function.name
                   /\ (p + k + 1 <= Len(apiMessages) =>
                         apiMessages[p + k + 1].role # "tool")
    /\ (pc = "provider" /\ activeProvider # "gemini") =>
         requestPayload.messages = apiMessages

C4_Witness ==
    /\ pc = "provider"
    /\ \E p \in 1..Len(apiMessages) :
         apiMessages[p].role = "assistant" /\ Len(apiMessages[p].tool_calls) = 2

\* C5: every tools/call request sent was preceded by an invocation of the
\* approval callback for the same call, with the same tool name and
\* arguments, that resolved true.
C5_ApprovedBeforeExecution ==
    \A j \in 1..Len(mcpLog) :
        \E i \in 1..Len(approvalLog) :
            /\ approvalLog[i].turn = mcpLog[j].turn
            /\ approvalLog[i].index = mcpLog[j].index
            /\ approvalLog[i].toolName = mcpLog[j].request.name
            /\ approvalLog[i].args = mcpLog[j].request.arguments
            /\ approvalLog[i].answer = "yes"

C5_Witness ==
    /\ pc = "tool"
    /\ ToolsInFlight = 1
    /\ LastOf(approvalLog).answer = "yes"

\* C6: when the approval resolves false, the tool message of that call has
\* the denial string as content, no tools/call request is sent, and the
\* loop goes on with the next tool call.
C6_Denial ==
    [][DenialStep =>
         /\ mcpLog' = mcpLog
         /\ ~Rejected'
         /\ AnswersAndRunsOn(DENIED)]_vars

C6_Witness ==
    \E i \in 1..Len(approvalLog) :
        /\ approvalLog[i].answer = "no"
        /\ i < Len(approvalLog)
        /\ approvalLog[i + 1].turn = approvalLog[i].turn
        /\ approvalLog[i + 1].index = approvalLog[i].index + 1
        /\ \A j \in 1..Len(mcpLog) :
               ~(mcpLog[j].turn = approvalLog[i].turn
                 /\ mcpLog[j].index = approvalLog[i].index)

\* C7: for a tool call whose name no connected server enables, neither the
\* approval callback nor a tool server is invoked, and its tool message
\* has the not-found string as content.
C7_UnknownToolSkipsApproval ==
    /\ \A i \in 1..Len(approvalLog) : approvalLog[i].toolName \in EnabledNames
    /\ \A j \in 1..Len(mcpLog) : mcpLog[j].request.name \in EnabledNames
    /\ \A p \in 1..Len(apiMessages) :
           (apiMessages[p].role = "tool" /\ apiMessages[p].name \notin EnabledNames)
               => apiMessages[p].content = NOT_FOUND

\* C8: at most one approval is pending or one tool execution is in flight,
\* approvals of a turn are requested in the order of the calls, and while
\* the approval or the execution of call i is outstanding the working
\* history ends with the results of calls 1..i-1 of the turn.
C8_OneCallAtATime ==
    /\ PendingApprovals + ToolsInFlight <= 1
    /\ pendingTool.open <=> PendingApprovals = 1
    /\ \A i \in 1..Len(approvalLog) : \A j \in 1..Len(approvalLog) :
           (i < j /\ approvalLog[i].turn = approvalLog[j].turn)
               => approvalLog[i].index < approvalLog[j].index
    /\ PendingApprovals = 1 =>
         /\ LastOf(approvalLog).index = tc
         /\ TrailingToolMsgs(apiMessages, Len(apiMessages)) = tc - 1
    /\ ToolsInFlight = 1 =>
         /\ LastOf(mcpLog).index = tc
         /\ TrailingToolMsgs(apiMessages, Len(apiMessages)) = tc - 1

C8_Witness ==
    /\ PendingApprovals = 1
    /\ LastOf(approvalLog).index = 2
    /\ TrailingToolMsgs(apiMessages, Len(apiMessages)) = 1

\* C9 as stated: once the turn of a failed tool execution is over, a further
\* provider request has been made.
C9_NextProviderCallAlways ==
    \A j \in 1..Len(mcpLog) :
        (mcpLog[j].outcome = "failed" /\ (turns > mcpLog[j].turn \/ pc = "done"))
            => providerCalls > mcpLog[j].turn

\* C9, amended: when an approved tool execution fails, sendMessage does not
\* reject, the failure becomes the content of that call's tool message, the
\* remaining tool calls are processed, and at the end of the turn the next
\* provider request is made, unless the turn was the 5th: then sendMessage
\* returns with the limit-reached message and no further request.
C9_ToolFailureIsReported ==
    [][ToolFailStep =>
         /\ ~Rejected'
         /\ \E err \in ToolFailures : AnswersAndRunsOn(ERROR_PREFIX \o err)
         /\ tc' > Len(toolCalls) =>
              IF turns < 5
              THEN /\ pc' = "provider"
                   /\ providerCalls' = providerCalls + 1
              ELSE /\ Fulfilled'
                   /\ IsLimitMsg(LastOf(result'.value))
                   /\ providerCalls' = providerCalls]_vars

C9_Witness ==
    \E j \in 1..Len(mcpLog) :
        /\ mcpLog[j].outcome = "failed"
        /\ mcpLog[j].index = 1
        /\ providerCalls > mcpLog[j].turn
        /\ \E i \in 1..Len(approvalLog) :
               /\ approvalLog[i].turn = mcpLog[j].turn
               /\ approvalLog[i].index = 2

\* C10: when the provider request fails, sendMessage rejects with that one
\* error and without a message list, and neither that step nor any later
\* one makes a provider, approval or tool request.
C10_ProviderFailureRejects ==
    [][/\ ProviderFailStep =>
            /\ result'.status = "rejected"
            /\ result'.value = << >>
            /\ result'.error \in ProviderFailures
            /\ pc' = "done"
            /\ UNCHANGED << providerCalls, approvalLog, mcpLog, pendingTool >>
       /\ Rejected =>
            UNCHANGED << result, providerCalls, approvalLog, mcpLog,
                         pendingTool >>]_vars

C10_Witness ==
    /\ Rejected
    /\ Len(responseLog) = 3
    /\ LastOf(responseLog).how = "failed"
    /\ providerCalls = 3

----------------------------------------------------------------------------
(* Properties of handleSend *)

\* the send handleSend started has settled and its continuation has run
SendSettled == sendSessionId # "" /\ inFlight = 0

\* the messages of the session the send was started in
SentSession == CurrentSession(sessions, sendSessionId).messages

\* C11: every normal return of sendMessage carries at least one message;
\* once a send has settled, the session holds the messages up to the user's
\* message followed by the returned messages or, after a rejection, by
\* exactly one system message with the text of the error: at least one
\* message follows the user's message.
C11_NeverSilent ==
    /\ Fulfilled => Len(result.value) >= 1
    /\ SendSettled =>
         LET n == Len(updatedMessages)
         IN  /\ updatedMessages[n].role = "user"
             /\ Len(SentSession) > n
             /\ SubSeq(SentSession, 1, n) = updatedMessages
             /\ Fulfilled =>
                  SubSeq(SentSession, n + 1, Len(SentSession)) = result.value
             /\ Rejected =>
                  /\ Len(SentSession) = n + 1
                  /\ SentSession[n + 1].role = "system"
                  /\ SentSession[n + 1].content =
                       <<"Error: ">> \o result.error \o <<". Verifica tu conexion.">>

C11_Witness ==
    /\ SendSettled
    /\ Rejected
    /\ providerCalls = 2
    /\ LastOf(SentSession).role = "system"

----------------------------------------------------------------------------
(* Properties of the configuration, the history and the debug envelope *)

\* C12: when the key of the active provider or its model id is empty,
\* sendMessage rejects and no provider request is ever sent.
C12_ConfigurationChecked ==
    (apiKey = "" \/ ModelOf(activeProvider) = "") =>
        /\ providerCalls = 0
        /\ pc # "idle" => Rejected

\* C14: no step of an invocation changes the history list the caller
\* passed: no element is added, removed, reordered or modified, whether the
\* invocation ends with a final answer, after tool turns, at the limit or
\* with a rejection.
C14_HistoryUnchanged == [][history' = history]_vars

C14_Witness ==
    /\ Len(history) = 2
    /\ Fulfilled
    /\ Len(mcpLog) > 0
    /\ Len(apiMessages) > Len(history) + 2

\* C15: the last message of every returned list, the limit-reached message
\* included, carries a debug envelope with the request payload, the raw
\* response, the provider id and the model id.
C15_DebugEnvelope ==
    Fulfilled =>
        LET m == LastOf(result.value)
        IN  /\ m.role = "model"
            /\ m.rawDebug.present
            /\ m.rawDebug.provider = activeProvider
            /\ m.rawDebug.model = ModelOf(activeProvider)
            /\ m.rawDebug.requestPayload = requestPayload
            /\ m.rawDebug.responsePayload = data

\* C16: provided every provider request, approval request and tool call
\* eventually settles, every invocation of sendMessage that has started
\* eventually returns or rejects.
C16_Terminates == (pc # "idle") ~> (pc = "done" /\ result.status # "pending")

C16_Witness ==
    /\ pc = "done"
    /\ Fulfilled
    /\ turns = 5
    /\ Len(approvalLog) >= 5
    /\ \E i \in 1..Len(approvalLog) : approvalLog[i].answer = "no"

----------------------------------------------------------------------------
(* Properties of fetchModels *)

\* the fetch failed in transport, came back with a non-success status, or
\* with a body that does not parse
FetchFailed(response) == ~response.transport \/ ~response.ok \/ ~response.json

\* C13: fetchModels never rejects; after a transport failure, a non-success
\* status or an unparseable body it resolves to the static fallback list of
\* the provider, which is empty for a provider that has none.
C13_FetchModelsNeverRejects ==
    /\ fetchCall.result.status # "rejected"
    /\ fetchCall.pc = "done" =>
         /\ fetchCall.result.status = "fulfilled"
         /\ (fetchCall.request # NoRequest /\ FetchFailed(fetchCall.response)) =>
              /\ fetchCall.result.value = FallbackModels(fetchCall.provider)
              /\ fetchCall.provider \notin {"openai", "gemini"} =>
                   fetchCall.result.value = << >>

C13_Witness ==
    /\ fetchCall.pc = "done"
    /\ fetchCall.provider = "openai"
    /\ fetchCall.request # NoRequest
    /\ ~fetchCall.response.transport
    /\ Len(fetchCall.result.value) = 6

\* vocabulary: the tools/list exchange of a response succeeded, and the list
\* it returned
ExchangeSucceeded(response) ==
    /\ response.transport /\ response.ok /\ response.json
    /\ ~response.body.isNull /\ ~response.body.hasError
    /\ response.body.hasTools \/ response.body.isArray

ReturnedList(response) ==
    IF response.body.hasTools THEN response.body.tools ELSE response.body.items

\* C17: a server whose connection starts is in the loading state after that
\* step; a server becomes connected only in the step in which its tools/list
\* exchange settles with success, and then its tools are the returned list;
\* when the exchange settles with any failure the server is in the error
\* state with a non-empty message; after the settling step the server, if
\* still configured, is not loading.
C17_ConnectLifecycle ==
    [][\A id \in ServerIds :
         LET starts == connects[id].pc # "pending" /\ connects'[id].pc = "pending"
             settles == connects[id].pc = "pending" /\ connects'[id].pc = "settled"
             response == connects'[id].response
             before == ServerOf(mcpServers, id)
             after == ServerOf(mcpServers', id)
         IN  /\ starts => HasServer(mcpServers', id) /\ after.status = "loading"
             /\ (/\ HasServer(mcpServers, id) /\ HasServer(mcpServers', id)
                 /\ before.status # "connected" /\ after.status = "connected")
                => settles /\ ExchangeSucceeded(response)
             /\ (settles /\ HasServer(mcpServers', id))
                => /\ after.status # "loading"
                   /\ ExchangeSucceeded(response)
                      => /\ after.status = "connected"
                         /\ after.tools = ReturnedList(response)
                   /\ ~ExchangeSucceeded(response)
                      => /\ after.status = "error"
                         /\ after.errorMessage # NoText]_vars

\* a connection settled with a non-2xx status and the server is in error
C17_Witness ==
    \E id \in ServerIds :
      /\ connects[id].pc = "settled"
      /\ connects[id].response.transport /\ ~connects[id].response.ok
      /\ HasServer(mcpServers, id)
      /\ ServerOf(mcpServers, id).status = "error"
      /\ ServerOf(mcpServers, id).errorMessage # NoText

\* C18: in a step in which a connected server stops being connected while
\* staying configured (the disconnect), the server ends idle with an empty
\* tool list and an empty enabled-tool set, nothing else of it changes, and
\* every other configured server is as it was.
C18_Disconnect ==
    [][\A i \in 1..Len(mcpServers) :
         (/\ mcpServers[i].status = "connected"
          /\ HasServer(mcpServers', mcpServers[i].id)
          /\ ServerOf(mcpServers', mcpServers[i].id).status # "connected")
         => /\ Len(mcpServers') = Len(mcpServers)
            /\ mcpServers'[i] = [mcpServers[i] EXCEPT !.status = "idle",
                                                      !.tools = << >>,
                                                      !.enabledTools = {}]
            /\ \A j \in 1..Len(mcpServers) :
                 j # i => mcpServers'[j] = mcpServers[j]]_vars

\* a server that was connected with tools is idle with none, next to another
\* server that is still connected with its tools
C18_Witness ==
    /\ Len(mcpServers) = 2
    /\ connects["s2"].pc = "settled"
    /\ mcpServers[2].status = "idle"
    /\ mcpServers[2].tools = << >> /\ mcpServers[2].enabledTools = {}
    /\ mcpServers[1].status = "connected"
    /\ mcpServers[1].tools # << >> /\ mcpServers[1].enabledTools # {}

\* vocabulary: the tools enabled on connected servers in the settings
\* sendMessage started with, and the server that has each of them
StartTools == ActiveToolsDefs(McpServers, 1)

StartServer(toolName) ==
    CHOOSE srv \in { McpServers[i] : i \in 1..Len(McpServers) } :
       /\ srv.status = "connected"
       /\ toolName \in srv.enabledTools
       /\ toolName \in ToolNames(srv.tools)

\* C19: whatever the user toggles, disconnects or removes while the
\* invocation is in flight, every provider request offers the tools enabled
\* when sendMessage started, approval is asked exactly for the tool names
\* the starting settings resolve (or an inherited key), only other names are
\* answered "not found", and every tools/call request of a starting tool goes
\* to the url of the server that had it at the start.
C19_ToolsFixedAtStart ==
    /\ pc = "provider" => requestPayload.tools = StartTools
    /\ \A k \in 1..Len(approvalLog) :
         approvalLog[k].toolName \in ToolNames(StartTools) \cup ObjectPrototypeKeys
    /\ \A k \in 1..Len(apiMessages) :
         (apiMessages[k].role = "tool" /\ apiMessages[k].content = NOT_FOUND)
         => apiMessages[k].name \notin ToolNames(StartTools)
    /\ \A k \in 1..Len(mcpLog) :
         mcpLog[k].request.name \in ToolNames(StartTools)
         => mcpLog[k].request.url = StartServer(mcpLog[k].request.name).url

\* the server of the tool was disconnected or removed, or the tool switched
\* off; after that a tools/call request went out and, in a later turn, the
\* provider was offered the tool, called it, and the request went out again
C19_Witness ==
    /\ settingsLog # << >>
    /\ pc = "tool"
    /\ Len(mcpLog) > settingsLog[1].requests + 1
    /\ mcpLog[Len(mcpLog)].turn > mcpLog[settingsLog[1].requests + 1].turn
    /\ requestPayload.tools = StartTools
    /\ mcpLog[Len(mcpLog)].request.name \notin
         ToolNames(ActiveToolsDefs(mcpServers, 1))

\* C20: never more than one sendMessage invocation awaited by handleSend;
\* the loading flag is up exactly while one is awaited, so it is up whenever
\* sendMessage is suspended in an await or has settled without handleSend
\* having run on, and it is down once handleSend has run on after a
\* fulfilled or a rejected result; the provider is asked for one invocation
\* only (MAX_TURNS requests at most).
C20_OneSendInFlight ==
    /\ inFlight \in {0, 1}
    /\ isLoading <=> inFlight = 1
    /\ InFlight => isLoading
    /\ pc = "done" => (isLoading <=> ~SendSettled)
    /\ SendSettled => ~isLoading /\ result.status \in {"fulfilled", "rejected"}
    /\ providerCalls <= MAX_TURNS

\* a send is awaiting a tool while the user has typed the next message: the
\* loading flag is all that keeps handleSend from sending it
C20_Witness ==
    /\ isLoading
    /\ pc = "tool"
    /\ inFlight = 1
    /\ input = CurrentMessage

\* C21: in the step in which a provider response without tool calls arrives,
\* and in every later step of the invocation, no provider request is sent,
\* no approval is requested and no tools/call request goes out; the
\* invocation has returned.
C21_FinalResponseEndsLoop ==
    [][SawFinalResponse' =>
         /\ providerCalls' = providerCalls
         /\ Len(approvalLog') = Len(approvalLog)
         /\ Len(mcpLog') = Len(mcpLog)
         /\ pc' = "done"]_vars

\* the provider asked for a tool, the tool ran, and the second response
\* carried no tool call: two round trips and the invocation has returned
C21_Witness ==
    /\ SawFinalResponse
    /\ pc = "done"
    /\ turns = 2
    /\ providerCalls = 2
    /\ Len(mcpLog) = 1

\* C22: the tool calls of the last provider response have pairwise distinct
\* ids.
C22_DistinctCallIds ==
    \A i, j \in 1..Len(toolCalls) :
        i # j => toolCalls[i].id # toolCalls[j].id

\* C23: in every provider request of a send started by handleSend the new
\* message of the user appears exactly once.
C23_UserMessageOnce ==
    (pc = "provider" /\ inFlight = 1) =>
        Cardinality({ k \in 1..Len(requestPayload.messages) :
                        /\ requestPayload.messages[k].role = "user"
                        /\ requestPayload.messages[k].content = CurrentMessage }) = 1

\* vocabulary: the tool messages of a list of messages, in order
ToolMsgsOf(msgs) == SelectSeq(msgs, LAMBDA m : m.role = "tool")

\* C24: when the invocation returns after k >= 1 tool calls, the returned
\* list holds k tool messages, one per call in call order, before the final
\* assistant message.
C24_ToolMessagesReturned ==
    (pc = "done" /\ Fulfilled) =>
        LET worked == ToolMsgsOf(apiMessages)
            returned == ToolMsgsOf(result.value)
        IN  /\ Len(returned) = Len(worked)
            /\ \A k \in 1..Len(returned) :
                 /\ returned[k].tool_call_id = worked[k].tool_call_id
                 /\ returned[k].content = worked[k].content
            /\ \A k \in 1..Len(result.value) :
                 result.value[k].role = "tool" =>
                   \E n \in (k + 1)..Len(result.value) :
                      result.value[n].role = "model"

\* vocabulary: the messages of the request in flight, without the system
\* instruction, with the role names of the canonical history
RequestBody ==
    IF activeProvider = "gemini"
    THEN [k \in 1..Len(requestPayload.contents) |->
            [role |-> requestPayload.contents[k].role,
             content |-> requestPayload.contents[k].parts[1]]]
    ELSE LET kept == SelectSeq(requestPayload.messages,
                               LAMBDA m : m.role # "system")
         IN  [k \in 1..Len(kept) |->
                [role |-> IF kept[k].role = "assistant" THEN "model"
                          ELSE kept[k].role,
                 content |-> kept[k].content]]

SystemInstructions ==
    IF activeProvider = "gemini"
    THEN (IF requestPayload.systemInstruction = NoText THEN 0 ELSE 1)
    ELSE Cardinality({ k \in 1..Len(requestPayload.messages) :
                         requestPayload.messages[k].role = "system" })

\* the role a message of the history has on the wire: Gemini knows no tool role
WireRole(role) ==
    IF activeProvider = "gemini" /\ role = "tool" THEN "user" ELSE role

\* C25: every provider request carries one system instruction; after it come
\* the user, assistant and tool messages of the history in the order of the
\* history, then the new user message, then only assistant and tool messages
\* appended by the loop.
C25_RequestOrder ==
    pc = "provider" =>
        LET kept == SelectSeq(history,
                              LAMBDA m : m.role \in {"user", "model", "tool"})
            n == Len(kept)
        IN  /\ SystemInstructions = 1
            /\ Len(RequestBody) > n
            /\ \A k \in 1..n :
                 /\ RequestBody[k].content = kept[k].content
                 /\ RequestBody[k].role = WireRole(kept[k].role)
            /\ RequestBody[n + 1].role = "user"
            /\ RequestBody[n + 1].content = CurrentMessage
            /\ \A k \in (n + 2)..Len(RequestBody) :
                 /\ RequestBody[k].role \in {"model", WireRole("tool")}
                 /\ RequestBody[k].content # CurrentMessage

\* the third request of an invocation on the mixed history, sent to Gemini
\* after two rounds of tool calls
C25_Witness ==
    /\ pc = "provider"
    /\ activeProvider = "gemini"
    /\ Len(history) = 5
    /\ turns = 3
    /\ Len(RequestBody) > 8

\* vocabulary: names of the tools some configured server lists, whatever
\* its state
ListedNames ==
    UNION { ToolNames(mcpServers[i].tools) : i \in 1..Len(mcpServers) }

\* C26: the tools offered in a provider request are the tools that a
\* connected server lists and enables; a listed tool that is disabled, or
\* whose server is not connected, is not offered, and a call to it is not
\* resolved: no approval is asked for it and no tools/call request goes out.
C26_OnlyEnabledTools ==
    /\ pc = "provider" => ToolNames(requestPayload.tools) = EnabledNames
    /\ \A k \in 1..Len(approvalLog) :
         approvalLog[k].toolName \in ListedNames
         => approvalLog[k].toolName \in EnabledNames
    /\ \A k \in 1..Len(mcpLog) :
         mcpLog[k].request.name \in ListedNames
         => mcpLog[k].request.name \in EnabledNames

\* vocabulary: the call at position i of the last response has an argument
\* text that is not JSON
Malformed(i) == ~JsonParse(toolCalls[i].function.arguments).ok

\* C27: a tool call whose argument text is not JSON does not make the
\* invocation reject (it rejects only on a missing key or a failed provider
\* request); once the for loop has reached the call, approval has been asked
\* for it with the substitute arguments if its tool is enabled, and once the
\* loop is past it the working history holds exactly one tool message with
\* its id.
C27_MalformedArguments ==
    /\ Rejected => (responseLog = << >> \/ LastOf(responseLog).how = "failed")
    /\ \A i \in 1..Len(toolCalls) :
         Malformed(i) =>
           /\ (i <= tc /\ toolCalls[i].function.name \in EnabledNames) =>
                \E k \in 1..Len(approvalLog) :
                   /\ approvalLog[k].index = i
                   /\ approvalLog[k].toolName = toolCalls[i].function.name
                   /\ approvalLog[k].args = InvalidArgsObject
           /\ i < tc =>
                Cardinality({ k \in 1..Len(apiMessages) :
                                /\ apiMessages[k].role = "tool"
                                /\ apiMessages[k].tool_call_id = toolCalls[i].id }) = 1

\* a call with malformed arguments was approved, its tool ran, and the next
\* provider request is in flight
C27_Witness ==
    /\ pc = "provider"
    /\ turns = 2
    /\ Len(toolCalls) = 1
    /\ Malformed(1)
    /\ Len(mcpLog) = 1
    /\ mcpLog[1].request.arguments = InvalidArgsObject
    /\ mcpLog[1].outcome = "ok"

\* vocabulary: the 5xx statuses, and the text of each kind of failure
ServerErrorStatuses == {"500", "502", "503"}

TransportText == <<"No pudimos encontrar tu servidor.">>

AuthText == <<"Acceso denegado. Revisa tus credenciales.">>

NotFoundText == <<"URL incompleta o incorrecta.">>

ServerErrorText ==
    <<"El servidor tuvo un problema interno al ejecutar la herramienta.">>

\* C28: a failed connection is reported with the text of its kind: a network
\* failure as transport, 401 and 403 as authentication, 404 as not found and
\* every 5xx status as server error.
C28_ErrorKinds ==
    \A id \in ServerIds :
        (/\ connects[id].pc = "settled"
         /\ HasServer(mcpServers, id)
         /\ ServerOf(mcpServers, id).status = "error")
        => LET r == connects[id].response
               m == ServerOf(mcpServers, id).errorMessage
           IN  /\ ~r.transport => m = TransportText
               /\ (r.transport /\ ~r.ok) =>
                    /\ r.status \in {"401", "403"} => m = AuthText
                    /\ r.status = "404" => m = NotFoundText
                    /\ r.status \in ServerErrorStatuses => m = ServerErrorText

\* vocabulary: ids of the sessions whose body is stored, and ids of the
\* entries of the stored index
StoredIds == { id \in SessionIds : store[ChatKey(id)].kind = "session" }

IndexedIds ==
    { IndexOrEmpty(store)[k].id : k \in 1..Len(IndexOrEmpty(store)) }

\* C29: when the calls made so far, one after another, have all completed,
\* the index holds one entry for each id whose body is stored, none for any
\* other id and none twice, and each entry is the metadata of the body
\* stored last under its id.
C29_IndexMatchesBodies ==
    ops = << >> =>
        /\ IndexedIds = StoredIds
        /\ Len(IndexOrEmpty(store)) = Cardinality(StoredIds)
        /\ \A k \in 1..Len(IndexOrEmpty(store)) :
             LET e == IndexOrEmpty(store)[k]
             IN  /\ store[ChatKey(e.id)].kind = "session"
                 /\ e = MetaOf(store[ChatKey(e.id)].session)

\* both chats are stored, the first saved again after its first message:
\* its entry was replaced where it stood, behind the chat saved later
C29_Witness ==
    /\ ops = << >>
    /\ StoredIds = SessionIds
    /\ Len(IndexOrEmpty(store)) = 2
    /\ IndexOrEmpty(store)[2] = [id |-> "1", title |-> "hola", createdAt |-> 1]
    /\ IndexOrEmpty(store)[1].title = "Nuevo Chat"


\* a step of deleteSession(id): its call, or the write of its index
DeleteSessionStep(id) ==
    \/ /\ Len(ops') = Len(ops) + 1
       /\ ops'[Len(ops')].name = "deleteSession"
       /\ ops'[Len(ops')].session.id = id
    \/ /\ Len(ops) = 1
       /\ ops[1].name = "deleteSession"
       /\ ops[1].session.id = id
       /\ store' # store

\* deleteSession(id) leaves the body and the index entry of every other
\* session as they were
DeleteSessionLeavesOthers ==
    \A id \in SessionIds :
       DeleteSessionStep(id) =>
          /\ \A other \in SessionIds \ {id} :
                store'[ChatKey(other)] = store[ChatKey(other)]
          /\ FilteredIndex(IndexOrEmpty(store'), id)
                = FilteredIndex(IndexOrEmpty(store), id)

\* the step in which confirmDeleteChat sets the sessions leaves the messages
\* of every session but the deleted one as they were
ConfirmDeleteLeavesOthers ==
    (deleteCall.pc = "deleting" /\ deleteCall'.pc # "deleting") =>
       \A k \in 1..Len(sessions) :
          sessions[k].id # deleteCall.id =>
             \E j \in 1..Len(sessions') :
                /\ sessions'[j].id = sessions[k].id
                /\ sessions'[j].messages = sessions[k].messages

\* C30: deleting one chat does not affect the others: deleteSession(id) leaves
\* the stored body and the index entry of every other session unchanged, and
\* confirmDeleteChat leaves the messages of every other session in the app
\* state unchanged
C30_DeleteLeavesOthers ==
    [][DeleteSessionLeavesOthers /\ ConfirmDeleteLeavesOthers]_vars


\* loadAllSessions has returned
LoadReturned ==
    serviceCall.name = "loadAllSessions" /\ serviceCall.pc = "returned"

\* what loadAllSessions is to return for an index entry
LoadedFor(st, meta) ==
    IF st[ChatKey(meta.id)].kind = "session"
    THEN st[ChatKey(meta.id)].session
    ELSE [id |-> meta.id, title |-> meta.title, createdAt |-> meta.createdAt,
          messages |-> << >>]

\* C31: loadAllSessions returns one session per index entry, the most
\* recently created first; an entry whose body is missing yields its metadata
\* with an empty message list; with no index the empty list is returned
C31_LoadAllSessions ==
    LoadReturned =>
       LET index == serviceCall.before[INDEX_KEY]
           loaded == serviceCall.returned
       IN  /\ index.kind = "undefined" => loaded = << >>
           /\ index.kind = "index" =>
                /\ Len(loaded) = Len(index.entries)
                /\ \A k \in 1..Len(index.entries) :
                      \E j \in 1..Len(loaded) :
                         loaded[j] = LoadedFor(serviceCall.before,
                                               index.entries[k])
                /\ \A j \in 1..(Len(loaded) - 1) :
                      loaded[j].createdAt >= loaded[j + 1].createdAt

\* two entries stored oldest first, one of them without body, were loaded
C31_Witness ==
    /\ LoadReturned
    /\ serviceCall.before[INDEX_KEY].kind = "index"
    /\ Len(serviceCall.before[INDEX_KEY].entries) = 2
    /\ serviceCall.before[INDEX_KEY].entries[1].createdAt
         < serviceCall.before[INDEX_KEY].entries[2].createdAt
    /\ \E j \in 1..2 : serviceCall.returned[j].messages = << >>
    /\ \E j \in 1..2 : serviceCall.returned[j].messages # << >>

\* migrateFromLocalStorage has returned
MigrateReturned ==
    serviceCall.name = "migrateFromLocalStorage" /\ serviceCall.pc = "returned"

\* the store held an index when the call started
HeldIndex == serviceCall.before[INDEX_KEY].kind \in {"index", "object"}

\* C32: migration never runs twice: a call that finds an index in the store
\* returns false and changes nothing, and so does a call made right after a
\* call that wrote an index
C32_MigrationOnce ==
    (MigrateReturned /\ (HeldIndex \/ serviceCall.previous = "wrote index")) =>
       /\ ~serviceCall.migrated
       /\ store = serviceCall.before

\* a second call has returned after a first one that migrated chats
C32_Witness ==
    /\ MigrateReturned
    /\ HeldIndex
    /\ serviceCall.previous = "wrote index"
    /\ \E id \in SessionIds : store[ChatKey(id)].kind = "session"

\* C33: whenever migrateFromLocalStorage returns false, the store is as it
\* was before the call
C33_FalseLeavesStore ==
    (MigrateReturned /\ ~serviceCall.migrated) => store = serviceCall.before


\* C34: clearAll deletes every key of the store that starts with the prefix
\* of the program, index and chat bodies included, and leaves every other key
\* as it was
C34_ClearAll ==
    [][(/\ serviceCall.name = "clearAll"
        /\ serviceCall.pc # "returned"
        /\ serviceCall'.pc = "returned")
       => \A key \in StoreKeys :
             IF key[1] = "nexus_"
             THEN store'[key] = Undefined
             ELSE store'[key] = serviceCall.before[key]]_vars

\* clearAll has returned on a store that held an index, a chat, another key
\* of the prefix and a key without it
C34_Witness ==
    /\ serviceCall.name = "clearAll"
    /\ serviceCall.pc = "returned"
    /\ serviceCall.before[INDEX_KEY].kind = "index"
    /\ serviceCall.before[ChatKey("1")].kind = "session"
    /\ serviceCall.before[PrefixedKey].kind = "foreign"
    /\ serviceCall.before[ForeignKey].kind = "foreign"
    /\ store[ForeignKey].kind = "foreign"


\* C38: for any interleaving of saveSession and deleteSession calls running
\* at the same time on different sessions, once all have completed the index
\* holds an entry for exactly the sessions whose body is stored
C38_NoIndexUpdateLost ==
    Len(ops) = 0 =>
       \A id \in SessionIds :
          (store[ChatKey(id)].kind = "session")
             <=> (\E k \in 1..Len(IndexOrEmpty(store)) :
                     IndexOrEmpty(store)[k].id = id)


\* C35: handleSend calls sendMessage only when the active provider is marked
\* connected, and an active provider that is connected is never refused
\* (sent to the settings) because another provider is not connected
C35_ActiveProviderDecides ==
    [][/\ inFlight' > inFlight => activeProvider \in connected
       /\ (isSettingsOpen' /\ ~isSettingsOpen) =>
             activeProvider \notin connected]_vars


\* no connect is in flight and the effect has nothing left to do
ProvidersAtRest == connectCall.pc = "idle" /\ ~effectDue

\* C36: whenever at least one provider is connected, after any sequence of
\* connect and disconnect operations on any of the eight providers the active
\* provider settles on a connected provider
C36_ActiveProviderConnected ==
    (ProvidersAtRest /\ connected # {}) => activeProvider \in connected

\* the models endpoint answered with success and at least one model
AnsweredWithModels(response) ==
    /\ response.transport
    /\ response.ok
    /\ response.json
    /\ ~response.body.isNull
    /\ \/ response.body.hasData /\ Len(response.body.data) > 0
       \/ response.body.hasModels /\ Len(response.body.models) > 0

\* C37: connectProvider marks a provider connected only when its models
\* endpoint answered successfully with at least one model; a transport
\* failure or a non-success status leaves the provider disconnected
C37_ConnectedOnlyOnAnswer ==
    [][(connectCall.pc = "fetchModels" /\ connectCall'.pc = "idle") =>
          /\ connectCall.provider \in connected' =>
                AnsweredWithModels(fetchCall.response)
          /\ (~fetchCall.response.transport \/ ~fetchCall.response.ok) =>
                connectCall.provider \notin connected']_vars


\* what a send that settles is to leave in its session
SettledMessages ==
    IF result.status = "fulfilled"
    THEN updatedMessages \o result.value
    ELSE Append(updatedMessages, ErrorMsg(now, result.error))

\* C39: when a send settles, its new messages or its error message are
\* written to the session that was current when handleSend started, even if
\* another session was selected or created meanwhile, and the messages of
\* every other session are unchanged
C39_SettleWritesToItsSession ==
    [][inFlight' < inFlight =>
          /\ Len(sessions') = Len(sessions)
          /\ \A k \in 1..Len(sessions) :
                /\ sessions'[k].id = sessions[k].id
                /\ sessions'[k].messages =
                     IF sessions[k].id = sendSessionId
                     THEN SettledMessages
                     ELSE sessions[k].messages]_vars

\* a send has settled in a chat that is no longer the one shown: another
\* chat was created, which is still empty, and the answer is in the first
C39_Witness ==
    /\ inFlight = 0
    /\ sendSessionId = "1"
    /\ currentSessionId = "2"
    /\ Len(sessions) = 2
    /\ sessions[1].id = "2"
    /\ sessions[1].messages = << >>
    /\ Len(sessions[2].messages) > Len(updatedMessages)
    /\ ~isLoading

====
